---- MODULE Spec2Model ----
(***************************************************************************)
(* State-machine model of the AAC pictogram front end (src/front/app.js):  *)
(* the dwell selector, the selection buffer, phrase composition through    *)
(* the local proxy, and the Azure availability monitor with its retries.   *)
(* Time is the browser clock in milliseconds (performance.now/Date.now).   *)
(***************************************************************************)
EXTENDS Integers, Sequences, FiniteSets, TLC

\* ------------------------------------------------------------------ bounds
\* The cards of the board used by the model (keys of PICTOS).
Cards == {"yo", "agua"}
\* Values the dwell-time slider is moved between.
DwellChoices == {2500, 5000}
\* The clock advances in steps of TimeStep up to MaxTime.
TimeStep == 2500
MaxTime == 10000
\* Generation requests in flight at once.
MaxInflight == 1
\* The clock of the composition runs and of the monitor runs.
ComposeTimeStep == 10000
ComposeMaxTime == 10000
MonitorTimeStep == 10000
MonitorMaxTime == 30000
\* Length of the concept sequences composeLocal is called with on its own.
MaxConcepts == 3
MaxRaw == 25

\* ------------------------------------------------------- program constants
GEN_TIMEOUT_MS == 10000
SELECTION_CAP == 3

\* null (no element, no timer handle)
Null == "null"

\* ------------------------------------------------------------------- state
VARIABLES
  now,                   \* performance.now() / Date.now()
  ws,                    \* the gaze socket: "null", "connecting", "open", "closed"
  dwellTarget,           \* card being dwelled on, or Null
  dwellTimer,            \* handle of the dwell interval, 0 when none
  dwellStart,            \* time the dwell episode started, 0 when none
  intervals,             \* live setInterval timers: records [id, key]
  fill,                  \* width (percent) of each card's dwell-fill bar
  currentDwellMs,        \* dwell duration in force
  selected,              \* the selection: sequence of keys
  output,                \* outputEl.value
  inflight,              \* generation requests in flight (composeRemote awaiting)
  azureFoundryAvailable, \* availability flag
  lastAzureCheck,        \* time of the last updateAzureStatus
  azureRetryCount,       \* retry counter
  badge,                 \* what the status badge shows
  retryBtn,              \* whether the retry button is displayed
  probes,                \* availability probes in flight
  retries,               \* retry sequences (retryAzureConnection) in progress
  monitorDue,            \* time of the next tick of the 30 s monitor interval
  availWriter,           \* history: who wrote azureFoundryAvailable last
  retryProbes,           \* history: retry probes issued since the last probe that was no retry
  lastProbe,             \* history: what the last step's probe completion did, or NoProbe
  lastChoose,            \* history: what the last step's chooseKey call did, or NoChoose
  lastDone,              \* history: the composition the last step completed, or NoDone
  gazeStay,              \* history: card the gaze hit-test keeps resolving to, or Null
  stayCommits,           \* history: dwell commits of gazeStay since the hit-test came to it
  acquiredAt,            \* history: time the current dwell target was acquired
  lastCancel,            \* history: the last dwell episode cancelled part-way (card, time accumulated)
  acquiredMs,            \* history: the dwell duration in force when the current target was acquired
  lastEvent,             \* history: the dropped gaze message or the monitor tick of the last step
  cursor,                \* where the gaze cursor is sent (tx, ty): a card, off the board, or Null
  tx, ty,                \* the pixel the cursor is sent to
  cx, cy,                \* the pixel the cursor is drawn at
  currentSmooth,         \* the smoothing factor, in hundredths
  oldWs,                 \* a socket an unclosed connectWS() has replaced, or "null"
  aborted,               \* requests the 10 s timer has aborted whose response is still to come
  localArgs,             \* composeLocal on its own: the concept sequences it is called with
  localResult            \* composeLocal on its own: the sentences it returned, or NoResult

dwellVars == <<dwellTarget, dwellTimer, dwellStart, intervals, fill>>
selVars == <<selected, output, inflight>>
azState == <<azureFoundryAvailable, lastAzureCheck, azureRetryCount, badge, retryBtn>>
monVars == <<probes, retries, monitorDue>>
histUI == <<lastChoose, lastDone, gazeStay, stayCommits, acquiredAt, lastCancel,
            acquiredMs, lastEvent>>
callVars == <<localArgs, localResult>>
ptrVars == <<tx, ty, cx, cy, currentSmooth, oldWs>>
histMon == <<availWriter, retryProbes, lastProbe>>
vars == <<now, ws, currentDwellMs, dwellVars, selVars, azState, monVars, histUI, histMon,
          cursor, callVars, ptrVars, aborted>>

\* ---------------------------------------------------------- pure functions
\* The keys of PICTOS.
Keys == {"yo", "tu", "agua", "comida", "si", "no", "banio", "tele", "dormir",
         "ayuda", "dolor", "calor"}

Range(s) == {s[i] : i \in 1..Len(s)}
SeqsUpTo(S, n) == UNION {[1..k -> S] : k \in 0..n}

\* The sequences of at most MaxConcepts keys that hold the same set of keys as a.
SameSetAs(a) == {b \in SeqsUpTo(Range(a), MaxConcepts) : Range(b) = Range(a)}

NoArgs == [a |-> <<>>]
NoResult == [called |-> FALSE]

Min(a, b) == IF a < b THEN a ELSE b

\* Coordinates are fixed-point numbers: Unit stands for 1.0.
Unit == 10

\* A clamp without its lower limit.
clamp01UpperOnly(v) == IF v > Unit THEN Unit ELSE v

\* clamp01(v)
clamp01(v) == IF v < 0 THEN 0 ELSE IF v > Unit THEN Unit ELSE v

\* window.innerWidth or window.innerHeight, in pixels
WindowSizes == {8, 20}

\* ws.onmessage: point.xNorm ?? (point.x / window.innerWidth), before the clamp
normalised(point, size) ==
  IF point.form = "norm" THEN point.v ELSE (point.v * Unit) \div size

Has(concepts, k) == \E i \in 1..Len(concepts) : concepts[i] = k

RECURSIVE Join(_)
Join(s) ==
  IF Len(s) = 0 THEN ""
  ELSE IF Len(s) = 1 THEN s[1]
  ELSE s[1] \o ", " \o Join(Tail(s))

\* The rules of composeLocal as data: the two keys of each rule and its sentence,
\* in the order of the source.
RuleTable ==
  << [k1 |-> "yo", k2 |-> "agua", sentence |-> "Por favor, necesito un vaso de agua."],
     [k1 |-> "yo", k2 |-> "comida", sentence |-> "Por favor, necesito un plato de comida."],
     [k1 |-> "tu", k2 |-> "agua", sentence |-> "Puedes traerme un vaso de agua, por favor?"],
     [k1 |-> "yo", k2 |-> "banio", sentence |-> "Necesito ir al banio, por favor."],
     [k1 |-> "yo", k2 |-> "tele", sentence |-> "Quiero ver la television."],
     [k1 |-> "yo", k2 |-> "dormir", sentence |-> "Tengo suenio, quiero dormir."],
     [k1 |-> "yo", k2 |-> "ayuda", sentence |-> "Por favor, necesito ayuda."],
     [k1 |-> "yo", k2 |-> "dolor", sentence |-> "Me duele algo, no me siento bien."],
     [k1 |-> "yo", k2 |-> "calor", sentence |-> "Tengo mucho calor."],
     [k1 |-> "tu", k2 |-> "ayuda", sentence |-> "Puedes ayudarme, por favor?"] >>

GenericSentence(concepts) == "Quiero comunicar: " \o Join(concepts) \o "."

\* The rules of table whose two keys are both among concepts.
Matching(table, concepts) ==
  {i \in 1..Len(table) : Has(concepts, table[i].k1) /\ Has(concepts, table[i].k2)}

\* The sentence of the first matching rule of table, else the generic sentence.
FirstMatch(table, concepts) ==
  LET m == Matching(table, concepts)
  IN IF m = {} THEN GenericSentence(concepts)
     ELSE table[CHOOSE i \in m : \A j \in m : i <= j].sentence

\* A composeLocal whose food rule comes before its water rule.
composeLocalFoodFirst(concepts) ==
  FirstMatch(<<RuleTable[2], RuleTable[1]>> \o SubSeq(RuleTable, 3, Len(RuleTable)), concepts)

\* A composeLocal whose rules look at positions: a rule matches when its first
\* key is the first concept and its second key comes later.
composeLocalByPosition(concepts) ==
  LET m == {i \in 1..Len(RuleTable) :
              /\ Len(concepts) > 0
              /\ concepts[1] = RuleTable[i].k1
              /\ Has(Tail(concepts), RuleTable[i].k2)}
  IN IF m = {} THEN GenericSentence(concepts)
     ELSE RuleTable[CHOOSE i \in m : \A j \in m : i <= j].sentence

\* composeLocal(concepts): first matching rule of the table, else the generic sentence
composeLocal(concepts) ==
  IF Has(concepts, "yo") /\ Has(concepts, "agua") THEN "Por favor, necesito un vaso de agua."
  ELSE IF Has(concepts, "yo") /\ Has(concepts, "comida") THEN "Por favor, necesito un plato de comida."
  ELSE IF Has(concepts, "tu") /\ Has(concepts, "agua") THEN "Puedes traerme un vaso de agua, por favor?"
  ELSE IF Has(concepts, "yo") /\ Has(concepts, "banio") THEN "Necesito ir al banio, por favor."
  ELSE IF Has(concepts, "yo") /\ Has(concepts, "tele") THEN "Quiero ver la television."
  ELSE IF Has(concepts, "yo") /\ Has(concepts, "dormir") THEN "Tengo suenio, quiero dormir."
  ELSE IF Has(concepts, "yo") /\ Has(concepts, "ayuda") THEN "Por favor, necesito ayuda."
  ELSE IF Has(concepts, "yo") /\ Has(concepts, "dolor") THEN "Me duele algo, no me siento bien."
  ELSE IF Has(concepts, "yo") /\ Has(concepts, "calor") THEN "Tengo mucho calor."
  ELSE IF Has(concepts, "tu") /\ Has(concepts, "ayuda") THEN "Puedes ayudarme, por favor?"
  ELSE "Quiero comunicar: " \o Join(concepts) \o "."

\* selected.splice(i, 1), with i counted from 1
\* A splice that leaves the surviving elements in reverse order.
SpliceReversing(s, i) ==
  LET kept == [j \in 1..(Len(s) - 1) |-> IF j < i THEN s[j] ELSE s[j + 1]]
  IN [j \in 1..Len(kept) |-> kept[Len(kept) + 1 - j]]

\* selected.splice(i, 1), with i counted from 1
Splice(s, i) == [j \in 1..(Len(s) - 1) |-> IF j < i THEN s[j] ELSE s[j + 1]]

\* pct of the dwell interval callback: Math.min(100, elapsed / currentDwellMs * 100)
dwellPct(elapsed, ms) == Min(100, (elapsed * 100) \div ms)

\* ---------------------------------------------------------------- dwell
\* The dwell state as one value: target, timer handle, start, live intervals, fills.
dwell == [target |-> dwellTarget, timer |-> dwellTimer, start |-> dwellStart,
          live |-> intervals, fill |-> fill]

SetDwell(d) ==
  /\ dwellTarget' = d.target
  /\ dwellTimer' = d.timer
  /\ dwellStart' = d.start
  /\ intervals' = d.live
  /\ fill' = d.fill

\* setInterval returns a handle no live timer has
FreshId(live) == CHOOSE n \in 1..(Cardinality(live) + 1) : \A t \in live : t.id # n

\* An endDwell that forgets the timer without clearing it.
endDwellLeavingTimer(d) ==
  [target |-> Null,
   timer |-> 0,
   start |-> 0,
   live |-> d.live,
   fill |-> IF d.target # Null THEN [d.fill EXCEPT ![d.target] = 0] ELSE d.fill]

\* An endDwell that leaves the progress bar as it is.
endDwellKeepingFill(d) ==
  [target |-> Null,
   timer |-> 0,
   start |-> 0,
   live |-> {t \in d.live : t.id # d.timer},
   fill |-> d.fill]

\* endDwell()
endDwell(d) ==
  [target |-> Null,
   timer |-> 0,
   start |-> 0,
   live |-> {t \in d.live : t.id # d.timer},
   fill |-> IF d.target # Null THEN [d.fill EXCEPT ![d.target] = 0] ELSE d.fill]

\* A beginDwell that keeps the start time of the episode it replaces.
beginDwellKeepingStart(d, element, key, t) ==
  IF d.target = element THEN d
  ELSE LET e == endDwell(d)
           id == FreshId(e.live)
       IN [e EXCEPT !.target = element, !.start = IF d.target # Null THEN d.start ELSE t,
                    !.timer = id,
                    !.live = e.live \cup {[id |-> id, key |-> key]}]

\* A beginDwell that starts the new timer without ending the episode before it.
beginDwellWithoutEnd(d, element, key, t) ==
  IF d.target = element THEN d
  ELSE LET id == FreshId(d.live)
       IN [d EXCEPT !.target = element, !.start = t, !.timer = id,
                    !.live = d.live \cup {[id |-> id, key |-> key]}]

\* beginDwell(element, key) at time t
beginDwell(d, element, key, t) ==
  IF d.target = element THEN d
  ELSE LET e == endDwell(d)
           id == FreshId(e.live)
       IN [e EXCEPT !.target = element, !.start = t, !.timer = id,
                    !.live = e.live \cup {[id |-> id, key |-> key]}]

\* ------------------------------------------------------- availability state
az == [available |-> azureFoundryAvailable, lastCheck |-> lastAzureCheck,
       retryCount |-> azureRetryCount, badge |-> badge, retryBtn |-> retryBtn]

SetAz(a) ==
  /\ azureFoundryAvailable' = a.available
  /\ lastAzureCheck' = a.lastCheck
  /\ azureRetryCount' = a.retryCount
  /\ badge' = a.badge
  /\ retryBtn' = a.retryBtn

\* updateAzureStatus(isAvailable, message, showRetry) at time t
updateAzureStatus(a, isAvailable, message, showRetry, t) ==
  [available |-> isAvailable,
   lastCheck |-> t,
   retryCount |-> IF isAvailable THEN 0 ELSE a.retryCount,
   badge |-> IF isAvailable THEN "Conectado"
             ELSE IF message = "" THEN "Error de Azure" ELSE message,
   retryBtn |-> (~isAvailable) /\ showRetry]

\* ------------------------------------------------- selection and composition
NoChoose == [called |-> FALSE]
NoDone == [done |-> FALSE]
NoProbe == [done |-> FALSE]
NoEvent == [kind |-> "none"]

\* A chooseKey whose guard lets a fourth key in.
chooseKeyPastCap(sel, key) == IF Len(sel) > SELECTION_CAP THEN sel ELSE Append(sel, key)

\* A trigger that fires from the second key on.
composeTriggeredFromTwo(sel, key) == Len(sel) < SELECTION_CAP /\ Len(Append(sel, key)) >= 2

\* chooseKey: the selection after chooseKey(key)
chooseKey(sel, key) == IF Len(sel) >= SELECTION_CAP THEN sel ELSE Append(sel, key)

\* chooseKey: whether chooseKey(key) calls composeAndSpeak
composeTriggered(sel, key) == Len(sel) < SELECTION_CAP /\ Len(Append(sel, key)) = 3

\* A composeRemote that always sends the request.
useLocalNever(available) == FALSE

\* composeRemote: whether the local fallback is used without a request
useLocalDirectly(available) == ~available

\* Arrays are shared by reference: a request in flight whose concepts array is
\* still the selected array (aliased) sees every in-place change of it (push,
\* splice); own holds the array's content once selected names another array.
ConceptsOf(c) == IF c.aliased THEN selected ELSE c.own

\* selected = []: the requests in flight keep the old array
Unalias(infl) ==
  [i \in 1..Len(infl) |-> IF infl[i].aliased
                          THEN [infl[i] EXCEPT !.aliased = FALSE, !.own = selected]
                          ELSE infl[i]]

RemoveAt(s, i) == [j \in 1..(Len(s) - 1) |-> IF j < i THEN s[j] ELSE s[j + 1]]

Generating == "Generando frase con IA..."

\* A composeAndSpeak that empties the selection once the phrase is shown.
afterComposeCleared(sel) == <<>>

\* composeAndSpeak after composeRemote has returned: the selection it leaves
afterCompose(sel) == sel

\* A request body that names every concept once: later repeats are left out.
requestBodyDeduped(concepts) ==
  [concepts |-> SelectSeq([i \in 1..Len(concepts) |->
                             IF \E j \in 1..(i - 1) : concepts[j] = concepts[i]
                             THEN Null ELSE concepts[i]],
                          LAMBDA k : k # Null)]

\* composeRemote: the body of the POST, JSON.stringify({concepts: concepts}), as the
\* proxy's JSON parser reads it back (an array keeps its order and its repeats)
requestBody(concepts) == [concepts |-> concepts]

\* POST /api/generate-phrase: translatedConcepts when the body has a non-empty one,
\* else concepts
conceptsToUse(body) ==
  IF "translatedConcepts" \in DOMAIN body /\ Len(body.translatedConcepts) > 0
  THEN body.translatedConcepts
  ELSE body.concepts

\* POST /api/generate-phrase: the line of the user prompt that lists the concepts
\* (no language in the body: the Spanish prompt)
userPromptLine(body) == "Pictogramas seleccionados: " \o Join(conceptsToUse(body))

\* composeRemote: the text it leaves in the AI status line, by the way it ends
aiStatusOf(how) ==
  CASE how = "direct" -> "Usando generacion local"
    [] how = "azure" -> "Generado con Azure IA"
    [] how = "degraded" -> "Azure fallo - Generado localmente"
    [] how = "timeout" -> "Timeout - usando local"
    [] OTHER -> "Error al generar frase"

\* composeAndSpeak(concepts) up to its first suspension; infl is inflight after
\* the push that triggered it
ComposeAndSpeak(concepts, infl) ==
  IF useLocalDirectly(azureFoundryAvailable)
  THEN /\ output' = composeLocal(concepts)
       /\ inflight' = infl
       /\ lastDone' = [done |-> TRUE, asked |-> concepts, concepts |-> concepts,
                       selection |-> concepts,
                       phrase |-> composeLocal(concepts), sent |-> FALSE,
                       availAtCall |-> azureFoundryAvailable, how |-> "direct",
                       aiStatus |-> aiStatusOf("direct")]
  ELSE /\ output' = Generating
       /\ inflight' = Append(infl, [asked |-> requestBody(concepts).concepts,
                                    prompt |-> userPromptLine(requestBody(concepts)),
                                    own |-> <<>>,
                                    aliased |-> TRUE, pc |-> "fetch",
                                    availAtCall |-> azureFoundryAvailable,
                                    deadline |-> now + GEN_TIMEOUT_MS])
       /\ lastDone' = NoDone

\* The bound on requests in flight: no composition is triggered beyond it.
RoomFor(key) ==
  composeTriggered(selected, key) /\ ~useLocalDirectly(azureFoundryAvailable)
    => Len(inflight) < MaxInflight

\* chooseKey(key), called by a click or by the dwell timer
ChooseKey(key, by) ==
  LET sel2 == chooseKey(selected, key)
      trig == composeTriggered(selected, key)
      infl == inflight
  IN /\ selected' = IF trig /\ useLocalDirectly(azureFoundryAvailable)
                    THEN afterCompose(sel2) ELSE sel2
     /\ IF trig THEN ComposeAndSpeak(sel2, infl)
        ELSE /\ output' = output
             /\ inflight' = infl
             /\ lastDone' = NoDone
     /\ lastChoose' = [called |-> TRUE, by |-> by, key |-> key, before |-> selected,
                       composed |-> trig, acquired |-> acquiredAt,
                       acquiredMs |-> acquiredMs]
     /\ lastEvent' = NoEvent

\* ------------------------------------------------------------ UI actions
UIEvent(e) == lastChoose' = NoChoose /\ lastDone' = NoDone /\ lastEvent' = e
NoUIEvent == UIEvent(NoEvent)
NoMonEvent == lastProbe' = NoProbe /\ UNCHANGED <<availWriter, retryProbes>>
MonitorIdle == UNCHANGED <<azState, monVars>> /\ NoMonEvent

\* history: the time the dwell target of d was acquired
Acquired(d) ==
  IF d.target = Null THEN 0
  ELSE IF d.target = dwellTarget THEN acquiredAt
  ELSE now

\* history: the episode on the current target is cancelled part-way when d has
\* another target and some of the dwell time, but not all of it, has passed
NoCancel == [target |-> Null, elapsed |-> 0]

TrackDwell(d) ==
  /\ acquiredAt' = Acquired(d)
  /\ acquiredMs' = IF d.target = Null THEN 0
                   ELSE IF d.target = dwellTarget THEN acquiredMs
                   ELSE currentDwellMs
  /\ lastCancel' = IF /\ dwellTarget # Null
                      /\ d.target # dwellTarget
                      /\ now - acquiredAt > 0
                      /\ now - acquiredAt < currentDwellMs
                   THEN [target |-> dwellTarget, elapsed |-> now - acquiredAt]
                   ELSE lastCancel

\* The clock advances by step, up to max.
AdvanceBy(step, max) ==
  /\ now + step <= max
  /\ now' = now + step
  /\ NoUIEvent /\ MonitorIdle
  /\ UNCHANGED <<callVars, aborted, ptrVars, cursor, ws, currentDwellMs, dwellVars, selVars, gazeStay, stayCommits,
                 acquiredAt, acquiredMs, lastCancel>>

AdvanceTime == AdvanceBy(TimeStep, MaxTime)

\* connectWS(), pressed while no socket is live: a new socket becomes ws
ConnectWS ==
  /\ ws \in {"null", "closed"}
  /\ ws' = "connecting"
  /\ gazeStay' = Null /\ stayCommits' = 0
  /\ NoUIEvent /\ MonitorIdle
  /\ UNCHANGED <<callVars, aborted, ptrVars, cursor, now, currentDwellMs, dwellVars, selVars, acquiredAt, acquiredMs, lastCancel>>

\* ws.onopen
WsOpen ==
  /\ ws = "connecting"
  /\ ws' = "open"
  /\ NoUIEvent /\ MonitorIdle
  /\ UNCHANGED <<callVars, aborted, ptrVars, cursor, now, currentDwellMs, dwellVars, selVars, gazeStay, stayCommits, acquiredAt, acquiredMs, lastCancel>>

\* A socket whose close handler also ends the dwell.
WsCloseEndingDwell ==
  /\ ws \in {"connecting", "open"}
  /\ ws' = "closed"
  /\ gazeStay' = Null /\ stayCommits' = 0
  /\ LET d == endDwell(dwell)
     IN SetDwell(d) /\ TrackDwell(d)
  /\ NoUIEvent /\ MonitorIdle
  /\ UNCHANGED <<callVars, aborted, ptrVars, cursor, now, currentDwellMs, selVars>>

\* ws.onclose
WsClose ==
  /\ ws \in {"connecting", "open"}
  /\ ws' = "closed"
  /\ gazeStay' = Null /\ stayCommits' = 0
  /\ NoUIEvent /\ MonitorIdle
  /\ UNCHANGED <<callVars, aborted, ptrVars, cursor, now, currentDwellMs, dwellVars, selVars, acquiredAt, acquiredMs, lastCancel>>

\* A gaze message as parseGazeMessage sees it: whether JSON.parse accepts it,
\* whether the parsed value is null, which of the coordinate pairs of the parsed
\* object are numbers, and for the text itself whether it is a string, has a comma
\* and splits into two numbers; at is where its point lies (a card, or Null for
\* off the cards).
Msg(json, jnull, pairs, isString, hasComma, numeric, at) ==
  [json |-> json, jnull |-> jnull, pairs |-> pairs, isString |-> isString,
   hasComma |-> hasComma, numeric |-> numeric, at |-> at]

Places == Cards \cup {Null}

GazeMessages ==
  {Msg(TRUE, FALSE, {pr}, TRUE, TRUE, FALSE, at) : pr \in {"xy", "norm", "gaze", "lxly"}, at \in Places}
  \cup {Msg(FALSE, FALSE, {}, TRUE, TRUE, TRUE, at) : at \in Places}   \* "0.4,0.7"
  \cup {Msg(TRUE, FALSE, {}, TRUE, TRUE, FALSE, Null),    \* {"x":"a","y":"b"}, [1,2]
        Msg(TRUE, FALSE, {}, TRUE, FALSE, FALSE, Null),   \* 5, "hola"
        Msg(TRUE, TRUE, {}, TRUE, FALSE, FALSE, Null),    \* null
        Msg(FALSE, FALSE, {}, TRUE, TRUE, FALSE, Null),   \* "a,b"
        Msg(FALSE, FALSE, {}, TRUE, FALSE, FALSE, Null),  \* "hola
        Msg(FALSE, FALSE, {}, FALSE, FALSE, FALSE, Null)} \* binary frame

\* parseGazeMessage returns null
NoPoint == [at |-> "none"]

\* A parseGazeMessage whose fallback accepts any text with a comma.
parseGazeMessageAnyComma(msg) ==
  IF msg.json /\ ~msg.jnull
  THEN IF msg.pairs # {} THEN [at |-> msg.at] ELSE NoPoint
  ELSE IF msg.isString /\ msg.hasComma THEN [at |-> msg.at] ELSE NoPoint

\* parseGazeMessage(msg): the point, or NoPoint. The catch branch runs when JSON.parse
\* throws and when reading a field of a parsed null throws.
parseGazeMessage(msg) ==
  IF msg.json /\ ~msg.jnull
  THEN IF msg.pairs # {} THEN [at |-> msg.at] ELSE NoPoint
  ELSE IF msg.isString /\ msg.hasComma /\ msg.numeric THEN [at |-> msg.at] ELSE NoPoint

\* window.innerWidth and window.innerHeight, in pixels
InnerSize == 16

\* The layout: the pixel that a gaze message or the mouse reports in each place
\* (a card, Null for off the cards, "centre" for the middle of the window).
PixelOf(place) ==
  CASE place = "yo" -> [x |-> 4, y |-> 8]
    [] place = "agua" -> [x |-> 12, y |-> 8]
    [] place = "centre" -> [x |-> InnerSize \div 2, y |-> InnerSize \div 2]
    [] OTHER -> [x |-> 8, y |-> 12]

\* showCursor(x, y) with the pixel of place
showCursor(place) ==
  /\ cursor' = place
  /\ tx' = PixelOf(place).x
  /\ ty' = PixelOf(place).y

\* The body of ws.onmessage for a parsed point: showCursor(px, py), then the
\* hit-test at (px, py), which resolves to hit (a card or Null), then beginDwell
\* or endDwell.
HandlePoint(hit) ==
  /\ showCursor(hit)
  /\ LET d == IF hit # Null THEN beginDwell(dwell, hit, hit, now) ELSE endDwell(dwell)
     IN SetDwell(d) /\ TrackDwell(d)
  /\ gazeStay' = hit
  /\ stayCommits' = IF hit = gazeStay THEN stayCommits ELSE 0
  /\ MonitorIdle
  /\ UNCHANGED <<callVars, aborted, now, ws, currentDwellMs, selVars, cx, cy, currentSmooth, oldWs>>

\* ws.onmessage with a parsed point whose hit-test resolves to hit (a card or Null)
GazeMessage(hit) ==
  /\ ws = "open"
  /\ HandlePoint(hit)

\* Whether the message carries a point in one of the accepted forms.
CarriesPoint(msg) ==
  \/ msg.json /\ ~msg.jnull /\ msg.pairs # {}
  \/ ~msg.json /\ msg.isString /\ msg.hasComma /\ msg.numeric

\* the messages of a tracker that keeps to the accepted forms
PointMessages == {msg \in GazeMessages : CarriesPoint(msg)}

\* ws.onmessage: the message is parsed; without a point the handler returns
OnMessage(msg) ==
  LET point == parseGazeMessage(msg)
      ev == IF CarriesPoint(msg) THEN NoEvent ELSE [kind |-> "garbage"]
  IN /\ UIEvent(ev)
     /\ IF point = NoPoint
        THEN /\ ws = "open"
             /\ MonitorIdle
             /\ UNCHANGED <<callVars, aborted, ptrVars, cursor, now, ws, currentDwellMs, dwellVars, selVars,
                            gazeStay, stayCommits, acquiredAt, acquiredMs, lastCancel>>
        ELSE GazeMessage(point.at)

\* the handlers setupDwellMouse installs: mouseenter and focus call beginDwell
PointerBegin(k) ==
  /\ LET d == beginDwell(dwell, k, k, now)
     IN SetDwell(d) /\ TrackDwell(d)
  /\ NoUIEvent /\ MonitorIdle
  /\ UNCHANGED <<callVars, aborted, ptrVars, cursor, now, ws, currentDwellMs, selVars, gazeStay, stayCommits>>

\* mouseleave and blur call endDwell
PointerEnd ==
  /\ LET d == endDwell(dwell)
     IN SetDwell(d) /\ TrackDwell(d)
  /\ NoUIEvent /\ MonitorIdle
  /\ UNCHANGED <<callVars, aborted, ptrVars, cursor, now, ws, currentDwellMs, selVars, gazeStay, stayCommits>>

MouseEnter(k) == PointerBegin(k)
Focus(k) == PointerBegin(k)
MouseLeave == PointerEnd
Blur == PointerEnd

\* The README gives the smoothness slider the range 5-50.
SmoothChoices == {15, 50}

\* updateControls(): the smoothness slider is moved to sm
UpdateSmooth(sm) ==
  /\ sm # currentSmooth
  /\ currentSmooth' = sm
  /\ NoUIEvent /\ MonitorIdle
  /\ UNCHANGED <<callVars, aborted, cursor, tx, ty, cx, cy, oldWs, now, ws, currentDwellMs, dwellVars,
                 selVars, gazeStay, stayCommits, acquiredAt, acquiredMs, lastCancel>>

\* c += (t - c) * currentSmooth, in whole pixels
approach(c, t, smooth) == c + ((t - c) * smooth) \div 100

\* updateCursorLoop(): one animation frame
CursorFrame ==
  /\ cx' = approach(cx, tx, currentSmooth)
  /\ cy' = approach(cy, ty, currentSmooth)
  /\ NoUIEvent /\ MonitorIdle
  /\ UNCHANGED <<callVars, aborted, cursor, tx, ty, currentSmooth, oldWs, now, ws, currentDwellMs,
                 dwellVars, selVars, gazeStay, stayCommits, acquiredAt, acquiredMs, lastCancel>>

\* the mousemove handler, with the mouse over place: it writes the cursor target
\* unless ws is an open socket
MouseMove(place) ==
  /\ IF ws # "open"
     THEN showCursor(place) /\ UIEvent([kind |-> "move"])
     ELSE UNCHANGED <<cursor, tx, ty>> /\ NoUIEvent
  /\ MonitorIdle
  /\ UNCHANGED <<callVars, aborted, cx, cy, currentSmooth, oldWs, now, ws, currentDwellMs, dwellVars,
                 selVars, gazeStay, stayCommits, acquiredAt, acquiredMs, lastCancel>>

\* connectWS(), pressed while the socket of an earlier press is live: ws is
\* overwritten with a new socket and the earlier one is neither closed nor
\* stripped of its handlers
ConnectWSAgain ==
  /\ ws \in {"connecting", "open"}
  /\ oldWs \in {"null", "closed"}
  /\ oldWs' = ws
  /\ ws' = "connecting"
  /\ gazeStay' = Null /\ stayCommits' = 0
  /\ NoUIEvent /\ MonitorIdle
  /\ UNCHANGED <<callVars, aborted, cursor, tx, ty, cx, cy, currentSmooth, now, currentDwellMs,
                 dwellVars, selVars, acquiredAt, acquiredMs, lastCancel>>

\* onopen of the replaced socket
OldWsOpen ==
  /\ oldWs = "connecting"
  /\ oldWs' = "open"
  /\ NoUIEvent /\ MonitorIdle
  /\ UNCHANGED <<callVars, aborted, cursor, tx, ty, cx, cy, currentSmooth, now, ws, currentDwellMs,
                 dwellVars, selVars, gazeStay, stayCommits, acquiredAt, acquiredMs, lastCancel>>

\* onclose of the replaced socket
OldWsClose ==
  /\ oldWs \in {"connecting", "open"}
  /\ oldWs' = "closed"
  /\ NoUIEvent /\ MonitorIdle
  /\ UNCHANGED <<callVars, aborted, cursor, tx, ty, cx, cy, currentSmooth, now, ws, currentDwellMs,
                 dwellVars, selVars, gazeStay, stayCommits, acquiredAt, acquiredMs, lastCancel>>

\* onmessage of the replaced socket: the same handler, which never looks at ws
OldWsMessage(msg) ==
  /\ oldWs = "open"
  /\ parseGazeMessage(msg) # NoPoint
  /\ UIEvent([kind |-> "old"])
  /\ HandlePoint(parseGazeMessage(msg).at)

\* click on a card
Click(k) ==
  /\ RoomFor(k)
  /\ ChooseKey(k, "click")
  /\ MonitorIdle
  /\ UNCHANGED <<callVars, aborted, ptrVars, cursor, now, ws, currentDwellMs, dwellVars, gazeStay, stayCommits, acquiredAt, acquiredMs, lastCancel>>

\* one tick of the dwell interval tm (every 60 ms while the timer lives)
DwellTick(tm) ==
  /\ tm \in intervals
  /\ MonitorIdle
  /\ UNCHANGED <<callVars, aborted, ptrVars, cursor, now, ws, currentDwellMs, gazeStay>>
  /\ IF dwellTarget = Null
     THEN /\ NoUIEvent
          /\ UNCHANGED <<dwellVars, selVars, stayCommits, acquiredAt, acquiredMs, lastCancel>>
     ELSE LET pct == dwellPct(now - dwellStart, currentDwellMs)
              d == [dwell EXCEPT !.fill[dwellTarget] = pct]
          IN IF pct >= 100
             THEN /\ RoomFor(tm.key)
                  /\ ChooseKey(tm.key, "dwell")
                  /\ SetDwell(endDwell(d))
                  /\ acquiredAt' = 0
                  /\ acquiredMs' = 0
                  /\ UNCHANGED lastCancel
                  /\ stayCommits' = IF tm.key = gazeStay THEN stayCommits + 1
                                    ELSE stayCommits
             ELSE /\ SetDwell(d)
                  /\ NoUIEvent
                  /\ UNCHANGED <<selVars, stayCommits, acquiredAt, acquiredMs, lastCancel>>

\* click on chip i: selected.splice(i, 1); renderChips(); outputEl.value = ''
RemoveChip(i) ==
  /\ i \in 1..Len(selected)
  /\ selected' = Splice(selected, i)
  /\ inflight' = inflight
  /\ output' = ""
  /\ NoUIEvent /\ MonitorIdle
  /\ UNCHANGED <<callVars, aborted, ptrVars, cursor, now, ws, currentDwellMs, dwellVars, gazeStay, stayCommits, acquiredAt, acquiredMs, lastCancel>>

\* click on clear: selected = []; renderChips(); outputEl.value = ''
Clear ==
  /\ selected' = <<>>
  /\ inflight' = Unalias(inflight)
  /\ output' = ""
  /\ NoUIEvent /\ MonitorIdle
  /\ UNCHANGED <<callVars, aborted, ptrVars, cursor, now, ws, currentDwellMs, dwellVars, gazeStay, stayCommits, acquiredAt, acquiredMs, lastCancel>>

\* updateControls(): the dwell-time slider is moved to ms
UpdateControls(ms) ==
  /\ ms # currentDwellMs
  /\ currentDwellMs' = ms
  /\ NoUIEvent /\ MonitorIdle
  /\ UNCHANGED <<callVars, aborted, ptrVars, cursor, now, ws, dwellVars, selVars, gazeStay, stayCommits, acquiredAt, acquiredMs, lastCancel>>

\* ------------------------------------------------- generation request steps
\* Response bodies of POST /api/generate-phrase (phrase "" also stands for a
\* missing phrase field: data.phrase || '').
Bodies ==
  {[phrase |-> "", source |-> "azure_openai"],
   [phrase |-> "Frase de Azure.", source |-> "azure_openai"],
   [phrase |-> "Frase de Azure.", source |-> "azure_foundry"],
   [phrase |-> "Servicio de IA temporalmente no disponible.", source |-> "local_fallback"]}

\* the body a successful response delivered in the last step
BodyEvent(data) == [kind |-> "body", phrase |-> data.phrase, source |-> data.source]

\* A composeRemote that takes every source for Azure.
IsAzureSourceAny(source) == TRUE

\* A composeRemote that knows only one of the two Azure source names.
IsAzureSourceFoundryOnly(source) == source = "azure_foundry"

\* composeRemote: the source values reported as generated by Azure
IsAzureSource(source) == source \in {"azure_foundry", "azure_openai"}

\* composeRemote, catch block: the availability state after a failed request
onRequestFailure(a, t) ==
  updateAzureStatus([a EXCEPT !.available = FALSE], FALSE, "Error de conexion", TRUE, t)

\* A composeRemote that takes any answer with a phrase as a sign of availability.
onDegradedAnswerAvailable(a, t) == updateAzureStatus(a, TRUE, "", TRUE, t)

\* composeRemote, fallback source: the availability state after a degraded answer
onDegradedAnswer(a, t) ==
  updateAzureStatus([a EXCEPT !.available = FALSE], FALSE, "Azure no respondio", TRUE, t)

\* composeRemote, catch block: the phrase returned after a failed request
fallbackPhrase(concepts) == composeLocal(concepts)

UIQuiet == UNCHANGED <<callVars, ptrVars, cursor, now, ws, currentDwellMs, dwellVars, gazeStay,
                       stayCommits, acquiredAt, acquiredMs, lastCancel>>
MonQuiet == UNCHANGED <<monVars, retryProbes>> /\ lastProbe' = NoProbe

\* composeRemote returns phrase for request i; composeAndSpeak shows it
FinishCompose(i, phrase, how, ev) ==
  /\ output' = phrase
  /\ selected' = afterCompose(selected)
  /\ inflight' = RemoveAt(inflight, i)
  /\ lastDone' = [done |-> TRUE, asked |-> inflight[i].asked, selection |-> selected,
                  concepts |-> ConceptsOf(inflight[i]), phrase |-> phrase, sent |-> TRUE,
                  availAtCall |-> inflight[i].availAtCall, how |-> how,
                  aiStatus |-> aiStatusOf(how)]
  /\ lastChoose' = NoChoose
  /\ lastEvent' = ev
  /\ aborted' = IF how = "timeout" THEN aborted + 1 ELSE aborted
  /\ UIQuiet /\ MonQuiet

\* the catch block of composeRemote for request i
FailCompose(i, how, ev) ==
  /\ SetAz(onRequestFailure(az, now))
  /\ availWriter' = "generation"
  /\ FinishCompose(i, fallbackPhrase(ConceptsOf(inflight[i])), how, ev)

\* fetch resolves with the response headers: the 10 s timer is cleared
FetchResponds(i, ok) ==
  /\ i \in 1..Len(inflight)
  /\ inflight[i].pc = "fetch"
  /\ inflight' = [inflight EXCEPT ![i].pc = IF ok THEN "json" ELSE "errjson",
                                  ![i].deadline = 0]
  /\ NoUIEvent /\ MonitorIdle
  /\ UNCHANGED <<callVars, aborted, ptrVars, cursor, now, ws, currentDwellMs, dwellVars, selected, output, gazeStay,
                 stayCommits, acquiredAt, acquiredMs, lastCancel>>

\* fetch rejects: network error
FetchRejects(i) ==
  /\ i \in 1..Len(inflight)
  /\ inflight[i].pc = "fetch"
  /\ FailCompose(i, "network", NoEvent)

\* the 10 s timer fires: controller.abort(), fetch rejects with AbortError
GenTimeout(i) ==
  /\ i \in 1..Len(inflight)
  /\ inflight[i].pc = "fetch"
  /\ now >= inflight[i].deadline
  /\ FailCompose(i, "timeout", NoEvent)

\* An abort that leaves the fetch promise pending.
abortLeavesPending == FALSE

\* controller.abort(): the pending fetch promise is rejected with AbortError at
\* once, so it is settled when the response comes
abortSettles == TRUE

\* The response to a request that the timer has aborted arrives with body data: a
\* settled promise takes no second outcome and composeRemote has returned from its
\* catch block, so no code runs.
LateResponse(data) ==
  /\ aborted > 0
  /\ aborted' = aborted - 1
  /\ output' = IF abortSettles THEN output ELSE data.phrase
  /\ UNCHANGED <<selected, inflight>>
  /\ UIEvent([kind |-> "late"]) /\ MonitorIdle
  /\ UNCHANGED <<callVars, ptrVars, cursor, now, ws, currentDwellMs, dwellVars,
                 gazeStay, stayCommits, acquiredAt, acquiredMs, lastCancel>>

\* res.json() of a successful response resolves with data
BodyArrives(i, data) ==
  /\ i \in 1..Len(inflight)
  /\ inflight[i].pc = "json"
  /\ IF data.phrase # ""
     THEN IF IsAzureSource(data.source)
          THEN /\ FinishCompose(i, data.phrase, "azure", BodyEvent(data))
               /\ UNCHANGED <<azState, availWriter>>
          ELSE /\ SetAz(onDegradedAnswer(az, now))
               /\ availWriter' = "generation"
               /\ FinishCompose(i, data.phrase, "degraded", BodyEvent(data))
     ELSE FailCompose(i, "empty", BodyEvent(data))

\* res.json() of an error response resolves: the HTTP error is thrown
ErrorBodyArrives(i) ==
  /\ i \in 1..Len(inflight)
  /\ inflight[i].pc = "errjson"
  /\ FailCompose(i, "status", NoEvent)

\* res.json() rejects: malformed or broken body
BodyRejects(i) ==
  /\ i \in 1..Len(inflight)
  /\ inflight[i].pc \in {"json", "errjson"}
  /\ FailCompose(i, "badbody", NoEvent)

\* ------------------------------------------------------ availability monitor
MAX_RETRY_ATTEMPTS == 3
AZURE_CHECK_INTERVAL == 30000
PROBE_TIMEOUT_MS == 5000
RETRY_DELAYS == <<2000, 5000, 10000>>

\* Probes in flight and retry sequences in progress at once.
MaxProbes == 2
MaxSeqs == 3

WaitingMsg == <<"Reintentando en 2s...", "Reintentando en 5s...", "Reintentando en 10s...">>
AttemptMsg == <<"Reintento 1/3...", "Reintento 2/3...", "Reintento 3/3...">>
ExhaustedMsg == "Max. reintentos alcanzado"

\* What a probe can meet: a body {status: 'connected'}; a body reporting an error
\* with a timeout message, another message, or no message field; a non-success
\* status; an unparseable body; a network error; the probe's own 5 s timeout.
ProbeOutcomes == {"connected", "timeoutMessage", "otherMessage", "noMessage",
                  "httpError", "badBody", "networkError"}

ProbeMessage(outcome) ==
  IF outcome = "timeoutMessage" THEN "Timeout connecting to Azure OpenAI"
  ELSE "Could not connect to Azure OpenAI"

\* A test that takes every message for a timeout.
includesTimeoutAlways(message) == TRUE

\* data.message.includes('timeout') || data.message.includes('Timeout')
includesTimeout(message) == message = "Timeout connecting to Azure OpenAI"

\* checkAzureFoundryStatus: whether the failed probe starts retryAzureConnection(0)
startsRetry(retryCount, message) ==
  retryCount < MAX_RETRY_ATTEMPTS /\ includesTimeout(message)

\* checkAzureFoundryStatus(showLoading) before the fetch
checkStart(a, showLoading) ==
  IF showLoading THEN [a EXCEPT !.badge = "Verificando...", !.retryBtn = FALSE] ELSE a

\* checkAzureFoundryStatus after the fetch: the availability state
checkEnd(a, outcome, t) ==
  CASE outcome = "connected" -> updateAzureStatus(a, TRUE, "", TRUE, t)
    [] outcome \in {"timeoutMessage", "otherMessage"} ->
         updateAzureStatus(a, FALSE, ProbeMessage(outcome), TRUE, t)
    [] outcome = "noMessage" ->
         updateAzureStatus(updateAzureStatus(a, FALSE, "No disponible", TRUE, t),
                           FALSE, "Proxy no accesible", TRUE, t)
    [] outcome = "httpError" -> updateAzureStatus(a, FALSE, "Error 500", TRUE, t)
    [] OTHER -> updateAzureStatus(a, FALSE, "Proxy no accesible", TRUE, t)

\* retryAzureConnection(attempt): whether the sequence gives up
retryExhausted(attempt) == attempt >= MAX_RETRY_ATTEMPTS

\* A retry that waits the first delay before every attempt.
retryDelayFlat(attempt) == RETRY_DELAYS[1]

\* retryAzureConnection(attempt): the delay waited before the probe
retryDelay(attempt) ==
  IF attempt + 1 <= Len(RETRY_DELAYS) THEN RETRY_DELAYS[attempt + 1]
  ELSE RETRY_DELAYS[Len(RETRY_DELAYS)]

\* A retryAzureConnection that keeps the attempt number in azureRetryCount.
retryEnterCounting(a, attempt, t) ==
  IF retryExhausted(attempt)
  THEN updateAzureStatus([a EXCEPT !.retryCount = attempt], FALSE, ExhaustedMsg, TRUE, t)
  ELSE updateAzureStatus([a EXCEPT !.retryCount = attempt], FALSE,
                         WaitingMsg[Min(attempt + 1, 3)], FALSE, t)

\* retryAzureConnection(attempt) up to its first suspension: the availability state
retryEnter(a, attempt, t) ==
  IF retryExhausted(attempt)
  THEN updateAzureStatus(a, FALSE, ExhaustedMsg, TRUE, t)
  ELSE updateAzureStatus(a, FALSE, WaitingMsg[Min(attempt + 1, 3)], FALSE, t)

FreshSeq(rs) == CHOOSE n \in 1..(Cardinality(rs) + 1) : \A r \in rs : r.id # n

\* the retry sequences after retryAzureConnection(attempt) is entered as sequence id
retryEnterSeqs(rs, id, attempt, t) ==
  IF retryExhausted(attempt) THEN rs
  ELSE rs \cup {[id |-> id, attempt |-> attempt, pc |-> "waiting",
                 due |-> t + retryDelay(attempt)]}

\* A probe is issued by checkAzureFoundryStatus(showLoading).
IssueProbe(by, seq, showLoading, a) ==
  /\ Len(probes) < MaxProbes
  /\ probes' = Append(probes, [by |-> by, seq |-> seq, deadline |-> now + PROBE_TIMEOUT_MS,
                               afterExhausted |-> badge = ExhaustedMsg])
  /\ SetAz(checkStart(a, showLoading))

\* click on the retry button
ManualRetry ==
  /\ retryBtn
  /\ IssueProbe("manual", 0, TRUE, az)
  /\ lastProbe' = NoProbe
  /\ UNCHANGED <<retries, monitorDue, availWriter, retryProbes>>
  /\ NoUIEvent
  /\ UNCHANGED <<callVars, aborted, ptrVars, cursor, now, ws, currentDwellMs, dwellVars, selVars, gazeStay, stayCommits,
                 acquiredAt, acquiredMs, lastCancel>>

\* A monitor whose tick wants more than 30 s since the last check.
tickProbesAfterMore(a, t) == t - a.lastCheck > AZURE_CHECK_INTERVAL

\* the interval callback of startAzureStatusMonitoring: whether it probes at time t
tickProbes(a, t) == t - a.lastCheck >= AZURE_CHECK_INTERVAL

\* a tick of the 30 s interval of startAzureStatusMonitoring
MonitorTick ==
  /\ now >= monitorDue
  /\ monitorDue' = monitorDue + AZURE_CHECK_INTERVAL
  /\ IF tickProbes(az, now)
     THEN IssueProbe("periodic", 0, FALSE, az)
     ELSE UNCHANGED <<probes, azState>>
  /\ lastProbe' = NoProbe
  /\ UNCHANGED <<retries, availWriter, retryProbes>>
  /\ UIEvent([kind |-> "tick"])
  /\ UNCHANGED <<callVars, aborted, ptrVars, cursor, now, ws, currentDwellMs, dwellVars, selVars, gazeStay, stayCommits,
                 acquiredAt, acquiredMs, lastCancel>>

\* the delay of retry sequence r has passed: it announces the attempt and probes
RetryTimerFires(r) ==
  /\ r \in retries
  /\ r.pc = "waiting"
  /\ now >= r.due
  /\ IssueProbe("retry", r.id, FALSE,
                updateAzureStatus(az, FALSE, AttemptMsg[Min(r.attempt + 1, 3)], FALSE, now))
  /\ retries' = (retries \ {r}) \cup {[r EXCEPT !.pc = "probing", !.due = 0]}
  /\ availWriter' = "retry"
  /\ retryProbes' = retryProbes + 1
  /\ lastProbe' = NoProbe
  /\ UNCHANGED monitorDue
  /\ NoUIEvent
  /\ UNCHANGED <<callVars, aborted, ptrVars, cursor, now, ws, currentDwellMs, dwellVars, selVars, gazeStay, stayCommits,
                 acquiredAt, acquiredMs, lastCancel>>

\* A check that reports success whenever the proxy sent a readable body.
checkReturnsForAnyBody(outcome) ==
  outcome \in {"connected", "timeoutMessage", "otherMessage", "noMessage"}

\* checkAzureFoundryStatus: the value its promise resolves to
checkReturns(outcome) == outcome = "connected"

\* Probe i completes with outcome: the rest of checkAzureFoundryStatus, the retry
\* sequence it starts, and the continuation of the retry sequence awaiting it.
CompleteProbe(i, outcome) ==
  LET p == probes[i]
      a1 == checkEnd(az, outcome, now)
      success == checkReturns(outcome)
      starts == outcome \in {"timeoutMessage", "otherMessage"}
                  /\ startsRetry(a1.retryCount, ProbeMessage(outcome))
      newId == FreshSeq(retries)
      a2 == IF starts THEN retryEnter(a1, 0, now) ELSE a1
      rs2 == IF starts THEN retryEnterSeqs(retries, newId, 0, now) ELSE retries
      awaiting == {r \in retries : r.id = p.seq /\ r.pc = "probing"}
      rs3 == rs2 \ awaiting
      resume == awaiting # {} /\ ~success
      a3 == IF resume
            THEN LET r == CHOOSE r \in awaiting : TRUE IN retryEnter(a2, r.attempt + 1, now)
            ELSE a2
      rs4 == IF resume
             THEN LET r == CHOOSE r \in awaiting : TRUE
                  IN retryEnterSeqs(rs3, r.id, r.attempt + 1, now)
             ELSE rs3
  IN /\ Cardinality(rs4) <= MaxSeqs
     /\ SetAz(a3)
     /\ retries' = rs4
     /\ probes' = RemoveAt(probes, i)
     /\ availWriter' = IF success \/ ~(starts \/ resume) THEN "probe" ELSE "retry"
     /\ retryProbes' = IF starts /\ p.seq = 0 THEN 0 ELSE retryProbes
     /\ lastProbe' = [done |-> TRUE, by |-> p.by, outcome |-> outcome, started |-> starts,
                      returned |-> success,
                      afterExhausted |-> p.afterExhausted,
                      exhausted |-> resume /\ (\A r \in awaiting : retryExhausted(r.attempt + 1)),
                      newSeq |-> IF starts THEN newId ELSE 0]
     /\ UNCHANGED monitorDue
     /\ NoUIEvent
     /\ UNCHANGED <<callVars, aborted, ptrVars, cursor, now, ws, currentDwellMs, dwellVars, selVars, gazeStay, stayCommits,
                    acquiredAt, acquiredMs, lastCancel>>

\* the proxy answers probe i, or the network fails
ProbeResponds(i, outcome) ==
  /\ i \in 1..Len(probes)
  /\ outcome \in ProbeOutcomes
  /\ CompleteProbe(i, outcome)

\* AbortSignal.timeout(5000) aborts probe i
ProbeTimeout(i) ==
  /\ i \in 1..Len(probes)
  /\ now >= probes[i].deadline
  /\ CompleteProbe(i, "abort")

\* ------------------------------------------------------------ specification
\* The state once the script has run and initializeApp() has issued the first probe.
InitProgram ==
  /\ now = 0
  /\ ws = "null"
  /\ dwellTarget = Null /\ dwellTimer = 0 /\ dwellStart = 0 /\ intervals = {}
  /\ fill = [c \in Cards |-> 0]
  /\ currentDwellMs = 2500
  /\ selected = <<>> /\ output = "" /\ inflight = <<>>
  /\ azureFoundryAvailable = FALSE /\ lastAzureCheck = 0 /\ azureRetryCount = 0
  /\ badge = "Verificando..." /\ retryBtn = FALSE
  /\ probes = <<[by |-> "init", seq |-> 0, deadline |-> PROBE_TIMEOUT_MS,
                  afterExhausted |-> FALSE]>>
  /\ retries = {}
  /\ monitorDue = AZURE_CHECK_INTERVAL
  /\ availWriter = "none" /\ retryProbes = 0 /\ lastProbe = NoProbe
  /\ lastChoose = NoChoose /\ lastDone = NoDone
  /\ gazeStay = Null /\ stayCommits = 0 /\ acquiredAt = 0 /\ lastCancel = NoCancel
  /\ acquiredMs = 0 /\ lastEvent = NoEvent
  /\ cursor = "centre"
  /\ tx = PixelOf("centre").x /\ ty = PixelOf("centre").y
  /\ cx = PixelOf("centre").x /\ cy = PixelOf("centre").y
  /\ currentSmooth = 15
  /\ oldWs = "null"
  /\ aborted = 0

Init ==
  /\ InitProgram
  /\ localArgs = NoArgs
  /\ localResult = NoResult

\* composeLocal on its own: it is called once with each of two concept sequences
\* that hold the same set of keys.
InitLocal ==
  /\ InitProgram
  /\ \E a \in SeqsUpTo(Keys, MaxConcepts) :
       \E b \in SameSetAs(a) : localArgs = [a |-> a, b |-> b]
  /\ localResult = NoResult

CallComposeLocal ==
  /\ localArgs # NoArgs
  /\ localResult = NoResult
  /\ localResult' = [called |-> TRUE, a |-> composeLocal(localArgs.a),
                     b |-> composeLocal(localArgs.b)]
  /\ NoUIEvent /\ MonitorIdle
  /\ UNCHANGED <<localArgs, aborted, ptrVars, cursor, now, ws, currentDwellMs, dwellVars, selVars,
                 gazeStay, stayCommits, acquiredAt, acquiredMs, lastCancel>>

SpecLocal == InitLocal /\ [][CallComposeLocal]_vars

\* One coordinate of an accepted gaze message, normalised (xNorm) or in pixels
\* (x, gaze.x, lx, or the first number of a pair in text), in a window of some size.
InitClamp ==
  /\ InitProgram
  /\ \E v \in (0 - MaxRaw)..MaxRaw, form \in {"norm", "pixel"}, size \in WindowSizes :
       localArgs = [v |-> v, form |-> form, size |-> size]
  /\ localResult = NoResult

\* ws.onmessage up to showCursor: the coordinate is normalised, clamped and scaled
\* back to pixels; again is the clamp applied to its own result
ClampCoordinate ==
  /\ localResult = NoResult
  /\ LET x == clamp01(normalised(localArgs, localArgs.size))
     IN localResult' = [called |-> TRUE, x |-> x, again |-> clamp01(x),
                        px |-> (x * localArgs.size) \div Unit]
  /\ NoUIEvent /\ MonitorIdle
  /\ UNCHANGED <<localArgs, aborted, ptrVars, cursor, now, ws, currentDwellMs, dwellVars, selVars,
                 gazeStay, stayCommits, acquiredAt, acquiredMs, lastCancel>>

SpecClamp == InitClamp /\ [][ClampCoordinate]_vars

\* ------------------------------------------------- the text form of a message
\* The two fields that msg.split(',') gives for a text with one comma.
TextFields == {"", "5", "0.4", "a"}

\* Number(field): the empty string converts to 0, a numeral to its value, any
\* other text to NaN
NumberOf(field) ==
  CASE field = "" -> [nan |-> FALSE, v |-> "0"]
    [] field = "5" -> [nan |-> FALSE, v |-> "5"]
    [] field = "0.4" -> [nan |-> FALSE, v |-> "0.4"]
    [] OTHER -> [nan |-> TRUE, v |-> "NaN"]

\* !Number.isNaN(sx) && !Number.isNaN(sy)
bothNumbers(f1, f2) == ~NumberOf(f1).nan /\ ~NumberOf(f2).nan

\* The text f1 + "," + f2, which JSON.parse rejects (a bare "5," or "," is no JSON),
\* its point lying at the place at.
TextMsg(f1, f2, at) ==
  [json |-> FALSE, jnull |-> FALSE, pairs |-> {}, isString |-> TRUE, hasComma |-> TRUE,
   numeric |-> bothNumbers(f1, f2), at |-> at, fields |-> <<f1, f2>>]

TextMessages == {TextMsg(f1, f2, at) : f1 \in TextFields, f2 \in TextFields, at \in Places}

\* parseGazeMessage on its own: it is called once with one message.
InitParse ==
  /\ InitProgram
  /\ \E msg \in GazeMessages \cup TextMessages : localArgs = [msg |-> msg]
  /\ localResult = NoResult

CallParse ==
  /\ localResult = NoResult
  /\ localResult' = [called |-> TRUE, point |-> parseGazeMessage(localArgs.msg)]
  /\ NoUIEvent /\ MonitorIdle
  /\ UNCHANGED <<localArgs, aborted, ptrVars, cursor, now, ws, currentDwellMs, dwellVars, selVars,
                 gazeStay, stayCommits, acquiredAt, acquiredMs, lastCancel>>

SpecParse == InitParse /\ [][CallParse]_vars

\* ------------------------------------------------------------ the hit-test
\* const tolerance = 30
Tolerance == 30

\* The board is laid out in square cells one tolerance wide, three by three, each
\* holding a card of the board or nothing that counts (Null); the viewport is
\* exactly the nine cells.
ViewSize == 3 * Tolerance
BoardCells == (0..2) \X (0..2)

\* Cards on the board at once.
MaxOnBoard == 2

Layouts ==
  {l \in [BoardCells -> Places] : Cardinality({c \in BoardCells : l[c] # Null}) <= MaxOnBoard}

\* The reported pixel coordinates: the middle of each cell, and the far edge that
\* a clamped coordinate of 1 gives.
HitCoords == {Tolerance \div 2, Tolerance + Tolerance \div 2, 2 * Tolerance + Tolerance \div 2,
              ViewSize}

\* document.elementFromPoint(x, y), then closest('.card') with the board as its
\* parent: the card, or Null (also for a point outside the viewport)
cardAt(layout, x, y) ==
  IF x >= 0 /\ x < ViewSize /\ y >= 0 /\ y < ViewSize
  THEN layout[<<x \div Tolerance, y \div Tolerance>>]
  ELSE Null

\* dx and dy run over -tolerance, 0, tolerance
Offsets == <<0 - Tolerance, 0, Tolerance>>

\* One probe of the loop body: the guard on the viewport, then the card there.
probeAt(layout, px, py, dx, dy) ==
  LET testX == px + dx
      testY == py + dy
  IN IF testX >= 0 /\ testX < ViewSize /\ testY >= 0 /\ testY < ViewSize
     THEN cardAt(layout, testX, testY)
     ELSE Null

\* A scan of the offsets with dy in the outer loop.
RECURSIVE scanYOuter(_, _, _, _, _)
scanYOuter(layout, px, py, i, j) ==
  IF i > Len(Offsets) THEN Null
  ELSE IF j > Len(Offsets) THEN scanYOuter(layout, px, py, i + 1, 1)
  ELSE LET card == probeAt(layout, px, py, Offsets[j], Offsets[i])
       IN IF card # Null THEN card ELSE scanYOuter(layout, px, py, i, j + 1)

\* The two for loops, dx outside and dy inside, from the i-th dx and j-th dy on.
RECURSIVE scanOffsets(_, _, _, _, _)
scanOffsets(layout, px, py, i, j) ==
  IF i > Len(Offsets) THEN Null
  ELSE IF j > Len(Offsets) THEN scanOffsets(layout, px, py, i + 1, 1)
  ELSE LET card == probeAt(layout, px, py, Offsets[i], Offsets[j])
       IN IF card # Null THEN card ELSE scanOffsets(layout, px, py, i, j + 1)

\* ws.onmessage, the hit-test: targetCard, or Null
hitTest(layout, px, py) ==
  LET card == cardAt(layout, px, py)
  IN IF card # Null THEN card ELSE scanOffsets(layout, px, py, 1, 1)

\* The hit-test on its own: one point reported over one layout of the board.
InitHit ==
  /\ InitProgram
  /\ \E l \in Layouts, px \in HitCoords, py \in HitCoords :
       localArgs = [layout |-> l, px |-> px, py |-> py]
  /\ localResult = NoResult

\* ws.onmessage from the hit-test on: the target found and the call that follows
HitTestPoint ==
  /\ localResult = NoResult
  /\ LET hit == hitTest(localArgs.layout, localArgs.px, localArgs.py)
     IN localResult' = [called |-> TRUE, hit |-> hit,
                        calls |-> IF hit # Null THEN "beginDwell" ELSE "endDwell"]
  /\ NoUIEvent /\ MonitorIdle
  /\ UNCHANGED <<localArgs, aborted, ptrVars, cursor, now, ws, currentDwellMs, dwellVars, selVars,
                 gazeStay, stayCommits, acquiredAt, acquiredMs, lastCancel>>

SpecHit == InitHit /\ [][HitTestPoint]_vars

\* ------------------------------------------------------------ the proxy
ProxyFallbackPhrase == "Servicio de IA temporalmente no disponible."

\* A catch block that reports the failure as a server error.
proxyCatchAsError(req) ==
  [status |-> 500, error |-> TRUE, phrase |-> "", source |-> "none"]

\* POST /api/generate-phrase, catch block: the fallback phrase, status 200
proxyCatch(req) ==
  [status |-> 200, error |-> TRUE, phrase |-> ProxyFallbackPhrase,
   source |-> "local_fallback"]

\* POST /api/generate-phrase: the answer to a request whose body was parsed.
\* shape tells whether concepts is absent (or falsy), a value that is no array, or
\* an array; translated whether translatedConcepts is absent, an array, or a
\* non-empty value without join; client whether azureOpenAIClient is set; azure
\* what the completion call does.
generatePhrase(req) ==
  IF req.shape # "array" \/ Len(req.body.concepts) = 0
  THEN [status |-> 400, error |-> TRUE, phrase |-> "", source |-> "none"]
  ELSE IF ~req.client
  THEN [status |-> 200, error |-> FALSE, phrase |-> ProxyFallbackPhrase,
        source |-> "local_fallback"]
  ELSE IF req.translated = "noJoin" \/ req.azure = "throws"
  THEN proxyCatch(req)
  ELSE IF req.azure = "empty"
  THEN [status |-> 200, error |-> FALSE, phrase |-> ProxyFallbackPhrase,
        source |-> "local_fallback"]
  ELSE [status |-> 200, error |-> FALSE, phrase |-> "Frase de Azure.",
        source |-> "azure_openai"]

\* A request to POST /api/generate-phrase: whether the rate limiter has already
\* counted 100 requests of its address, whether express.json can parse the body,
\* and what the handler and Azure will find.
InitProxy ==
  /\ InitProgram
  /\ \E overLimit \in BOOLEAN, parses \in BOOLEAN,
        shape \in {"absent", "noArray", "array"},
        items \in {<<>>, <<"yo", "agua", "yo">>},
        translated \in {"absent", "array", "noJoin"},
        client \in BOOLEAN, azure \in {"text", "empty", "throws"} :
       localArgs = [overLimit |-> overLimit, parses |-> parses, shape |-> shape,
                    body |-> requestBody(items), translated |-> translated,
                    client |-> client, azure |-> azure]
  /\ localResult = NoResult

\* The proxy answers the request: the rate limiter (429), express.json (whose
\* error goes to the global error handler, 500), then the route handler.
AnswerRequest ==
  /\ localResult = NoResult
  /\ LET req == localArgs
         res == IF req.overLimit
                THEN [status |-> 429, error |-> FALSE, phrase |-> "", source |-> "none"]
                ELSE IF ~req.parses
                THEN [status |-> 500, error |-> TRUE, phrase |-> "", source |-> "none"]
                ELSE generatePhrase(req)
     IN localResult' = [called |-> TRUE, status |-> res.status, error |-> res.error,
                        phrase |-> res.phrase, source |-> res.source]
  /\ NoUIEvent /\ MonitorIdle
  /\ UNCHANGED <<localArgs, aborted, ptrVars, cursor, now, ws, currentDwellMs, dwellVars, selVars,
                 gazeStay, stayCommits, acquiredAt, acquiredMs, lastCancel>>

SpecProxy == InitProxy /\ [][AnswerRequest]_vars

GazeNext ==
  \/ ConnectWS
  \/ WsOpen
  \/ WsClose
  \/ \E msg \in PointMessages : OnMessage(msg)

\* every message the socket can deliver
RawGazeNext ==
  \/ ConnectWS
  \/ WsOpen
  \/ WsClose
  \/ \E msg \in GazeMessages : OnMessage(msg)

PointerNext ==
  \/ \E k \in Cards : MouseEnter(k)
  \/ \E k \in Cards : Focus(k)
  \/ MouseLeave
  \/ Blur

DwellNext ==
  \/ \E tm \in intervals : DwellTick(tm)
  \/ \E ms \in DwellChoices : UpdateControls(ms)

SelectionNext ==
  \/ \E k \in Cards : Click(k)
  \/ \E i \in 1..SELECTION_CAP : RemoveChip(i)
  \/ Clear

ComposeNext ==
  \/ \E i \in 1..MaxInflight, ok \in BOOLEAN : FetchResponds(i, ok)
  \/ \E i \in 1..MaxInflight : FetchRejects(i)
  \/ \E i \in 1..MaxInflight : GenTimeout(i)
  \/ \E i \in 1..MaxInflight, data \in Bodies : BodyArrives(i, data)
  \/ \E i \in 1..MaxInflight : ErrorBodyArrives(i)
  \/ \E i \in 1..MaxInflight : BodyRejects(i)

MonitorNext ==
  \/ ManualRetry
  \/ MonitorTick
  \/ \E r \in retries : RetryTimerFires(r)
  \/ \E i \in 1..MaxProbes, outcome \in ProbeOutcomes : ProbeResponds(i, outcome)
  \/ \E i \in 1..MaxProbes : ProbeTimeout(i)

\* The dwell selector and the selection, driven by gaze, pointer and clicks, while
\* the proxy leaves the first probe unanswered.
DwellStep ==
  \/ AdvanceTime
  \/ GazeNext
  \/ PointerNext
  \/ DwellNext
  \/ SelectionNext

SpecDwell == Init /\ [][DwellStep]_vars

\* The gaze socket alone, delivering every kind of message, with the dwell timer,
\* the dwell-time slider and the clock.
GazeStep ==
  \/ AdvanceTime
  \/ RawGazeNext
  \/ DwellNext

SpecGaze == Init /\ [][GazeStep]_vars

\* The same, with a clock that goes on and a dwell interval that keeps firing
\* every 60 ms for as long as it is not cleared.
FairGaze ==
  /\ SpecGaze
  /\ WF_vars(AdvanceTime)
  /\ WF_vars(\E tm \in intervals : DwellTick(tm))

\* The cursor alone: the connect button pressed at any time, up to two sockets
\* delivering points, the mouse, the smoothness slider and the animation frames,
\* within a time too short for a dwell tick.
CursorStep ==
  \/ ConnectWS
  \/ ConnectWSAgain
  \/ WsOpen
  \/ WsClose
  \/ OldWsOpen
  \/ OldWsClose
  \/ \E msg \in PointMessages : OnMessage(msg)
  \/ \E msg \in PointMessages : OldWsMessage(msg)
  \/ \E place \in Places : MouseMove(place)
  \/ \E sm \in SmoothChoices : UpdateSmooth(sm)
  \/ CursorFrame

SpecCursor == Init /\ [][CursorStep]_vars

\* Selection by clicks and composition through the proxy, whose probes are answered
\* without a timeout message (no retry sequence); the retry button is pressed while
\* no probe is pending.
ComposeClock == AdvanceBy(ComposeTimeStep, ComposeMaxTime)

PlainProbeNext ==
  \/ probes = <<>> /\ ManualRetry
  \/ \E i \in 1..MaxProbes, outcome \in ProbeOutcomes \ {"timeoutMessage"} :
        ProbeResponds(i, outcome)
  \/ \E i \in 1..MaxProbes : ProbeTimeout(i)

Next ==
  \/ ComposeClock
  \/ SelectionNext
  \/ ComposeNext
  \/ PlainProbeNext

Spec == Init /\ [][Next]_vars

\* Requests in flight at once when compositions overlap.
MaxOverlap == 2

\* click on a card, with room for overlapping requests
ClickInFlight(k) ==
  /\ (composeTriggered(selected, k) /\ ~useLocalDirectly(azureFoundryAvailable))
       => Len(inflight) < MaxOverlap
  /\ ChooseKey(k, "click")
  /\ MonitorIdle
  /\ UNCHANGED <<callVars, aborted, ptrVars, cursor, now, ws, currentDwellMs, dwellVars,
                 gazeStay, stayCommits, acquiredAt, acquiredMs, lastCancel>>

\* Overlapping compositions: the first probe finds Azure connected, the user
\* clicks cards and chips while requests are in flight, and the proxy answers
\* the requests in any order.
OverlapNext ==
  \/ \E i \in 1..MaxProbes : ProbeResponds(i, "connected")
  \/ \E k \in Cards : ClickInFlight(k)
  \/ \E i \in 1..SELECTION_CAP : RemoveChip(i)
  \/ \E i \in 1..MaxOverlap : FetchResponds(i, TRUE)
  \/ \E i \in 1..MaxOverlap, data \in Bodies : BodyArrives(i, data)

SpecOverlap == Init /\ [][OverlapNext]_vars

\* The same runs with the responses that come after an abort.
LateNext ==
  \/ Next
  \/ \E data \in Bodies : LateResponse(data)

SpecLate == Init /\ [][LateNext]_vars

\* The same runs with the timers firing: the clock advances and an armed 10 s timer
\* fires. The proxy and the network owe nothing. Requests are issued while their
\* timeout still lies within the clock's range.
TimeoutInRange ==
  \A i \in 1..Len(inflight) :
     inflight[i].pc = "fetch" => inflight[i].deadline <= ComposeMaxTime

FairNext ==
  \/ ComposeClock
  \/ SelectionNext /\ TimeoutInRange'
  \/ ComposeNext
  \/ PlainProbeNext

FairSpec ==
  /\ Init
  /\ [][FairNext]_vars
  /\ WF_vars(ComposeClock)
  /\ \A i \in 1..MaxInflight : WF_vars(GenTimeout(i))

\* The availability monitor alone: probes, their answers and the retry sequences.
MonitorClock == AdvanceBy(MonitorTimeStep, MonitorMaxTime)

MonitorStep ==
  \/ MonitorClock
  \/ MonitorNext

SpecMonitor == Init /\ [][MonitorStep]_vars

\* The monitor left to itself, with a service that recovers: from HealAt on the
\* proxy answers every probe {status:'connected'}; before, it may answer anything or
\* not at all. Nobody presses the retry button. The interval of
\* startAzureStatusMonitoring, the retry timers and the answers are not held back
\* forever.
HealAt == 40000

RecoverMaxTime == 70000

RecoverClock == AdvanceBy(MonitorTimeStep, RecoverMaxTime)

serviceAnswers(outcome) == now >= HealAt => outcome = "connected"

RecoverNext ==
  \/ RecoverClock
  \/ MonitorTick
  \/ \E r \in retries : RetryTimerFires(r)
  \/ \E i \in 1..MaxProbes, outcome \in ProbeOutcomes :
       serviceAnswers(outcome) /\ ProbeResponds(i, outcome)
  \/ \E i \in 1..MaxProbes : now < HealAt /\ ProbeTimeout(i)

SpecRecover ==
  /\ Init
  /\ [][RecoverNext]_vars
  /\ WF_vars(RecoverClock)
  /\ WF_vars(MonitorTick)
  /\ WF_vars(\E r \in retries : RetryTimerFires(r))
  /\ WF_vars(\E i \in 1..MaxProbes : ProbeResponds(i, "connected"))

\* Everything that writes the availability state: the monitor with its retry
\* sequences, and one composition through the proxy, triggered by three clicks
\* on a card.
AvailNext ==
  \/ MonitorClock
  \/ MonitorNext
  \/ Click("yo")
  \/ ComposeNext

SpecAvail == Init /\ [][AvailNext]_vars

\* ------------------------------------------------------------------ claims
\* C1: while the gaze hit-test keeps resolving to a card T, T is committed at most
\* once: no second dwell commit of T happens unless the hit-test first leaves T.
\* (stayCommits counts the dwell commits of the card the hit-test has stayed on.)
C1_CommitOnce == stayCommits <= 1

\* C3: the selection never holds more than 3 keys, and chooseKey called on a
\* selection of 3 keys leaves the sequence as it was and triggers no composition.
C3_SelectionCap ==
  /\ Len(selected) <= 3
  /\ (lastChoose.called /\ Len(lastChoose.before) = 3
        => /\ selected = lastChoose.before
           /\ ~lastChoose.composed
           /\ lastDone = NoDone
           /\ inflight = <<>>)

\* C3 happens: the dwell timer commits a key on a selection that is already full.
C3_Witness ==
  /\ lastChoose.called
  /\ lastChoose.by = "dwell"
  /\ Len(lastChoose.before) = 3

\* C7: a dwell episode starts when its target is acquired, with progress 0, and a
\* dwell commit happens only when the whole dwell time has passed since then: time
\* spent in an earlier, interrupted episode on the same card never counts.
C7_NoCreditCarriedOver ==
  /\ (dwellTarget # Null
        => /\ dwellStart = acquiredAt
           /\ (now = acquiredAt => fill[dwellTarget] = 0))
  /\ (lastChoose.called /\ lastChoose.by = "dwell"
        => now - lastChoose.acquired >= currentDwellMs)

\* C7 happens: a card is committed by dwell after an earlier episode on the same
\* card was interrupted part-way.
C7_Witness ==
  /\ lastChoose.called
  /\ lastChoose.by = "dwell"
  /\ lastCancel.target = lastChoose.key
  /\ lastCancel.elapsed > 0

\* C9: a chooseKey call triggers composition exactly when its append brings the
\* selection to 3 keys, and the composition is given that 3-key sequence; appends
\* to fewer than 3 keys and calls on a full selection trigger none.
C9_ComposeExactlyAtThree ==
  lastChoose.called
    => /\ (lastDone # NoDone
            <=> Len(lastChoose.before) = 2 /\ Len(selected) = 3)
       /\ (lastChoose.composed <=> lastDone # NoDone)
       /\ (lastDone # NoDone
            => /\ lastDone.asked = Append(lastChoose.before, lastChoose.key)
               /\ lastDone.asked = selected)

\* C9 happens: a dwell commit appends the third key and the phrase is composed.
C9_Witness ==
  /\ lastChoose.called
  /\ lastChoose.by = "dwell"
  /\ Len(lastChoose.before) = 2
  /\ lastDone # NoDone
  /\ output = composeLocal(selected)

\* The ways composeRemote's request fails: network error, the 10 s timeout, a
\* non-success status, an empty or missing phrase.
FailureKinds == {"network", "timeout", "status", "empty"}

\* C4: when compose was invoked with available = true and its request fails, the
\* phrase shown is the local fallback sentence for the concepts compose was invoked
\* with, and available is false afterwards.
C4_FailureFallsBack ==
  lastDone # NoDone /\ lastDone.sent /\ lastDone.how \in FailureKinds
    => /\ lastDone.availAtCall
       /\ lastDone.phrase = composeLocal(lastDone.asked)
       /\ output = lastDone.phrase
       /\ ~azureFoundryAvailable

\* C5: a compose invoked while available = false sends no request and returns the
\* local fallback sentence: every request in flight was sent while available = true.
C5_NoRequestWhenUnavailable ==
  /\ \A i \in 1..Len(inflight) : inflight[i].availAtCall
  /\ (lastDone # NoDone /\ ~lastDone.availAtCall
        => /\ ~lastDone.sent
           /\ lastDone.phrase = composeLocal(lastDone.asked)
           /\ output = lastDone.phrase)

\* C5 happens: compose is invoked after a failed generation made available false,
\* with no probe in between, and answers locally.
C5_Witness ==
  /\ lastDone # NoDone
  /\ ~lastDone.availAtCall
  /\ ~lastDone.sent
  /\ availWriter = "generation"
  /\ Len(lastDone.asked) = 3

\* C6 as stated: once a composition has completed the selection is empty.
C6_ClearedAfterCompose == lastDone # NoDone => Len(selected) = 0

\* C6 as amended: the completion of a composition leaves the selection as it was
\* (it is emptied only by the clear button).
C6_SelectionKept == lastDone # NoDone => selected = lastDone.selection

\* C6 happens: a request completes and the 3 keys that triggered it are still selected.
C6_Witness ==
  /\ lastDone # NoDone
  /\ lastDone.sent
  /\ Len(selected) = 3
  /\ selected = lastDone.asked

\* C10: every compose call returns: a request in flight is eventually finished.
C10_ComposeReturns == (inflight # <<>>) ~> (inflight = <<>>)

\* C2: a retry sequence issues at most 3 retry probes after the failure that
\* started it, and once it is exhausted no retry is scheduled any more.
C2_RetryCap ==
  /\ retryProbes <= MAX_RETRY_ATTEMPTS
  /\ (lastProbe # NoProbe /\ lastProbe.exhausted => retries = {})

\* C8: a manual check that fails with a timeout message starts a fresh retry
\* sequence at attempt 0, due after the first delay (2 s), also after an
\* exhausted sequence; no sequence goes beyond 3 attempts.
C8_ManualCheckRestarts ==
  /\ \A r \in retries : r.attempt < MAX_RETRY_ATTEMPTS
  /\ (lastProbe # NoProbe /\ lastProbe.by = "manual" /\ lastProbe.outcome = "timeoutMessage"
        => /\ lastProbe.started
           /\ \E r \in retries :
                 /\ r.id = lastProbe.newSeq
                 /\ r.attempt = 0
                 /\ r.pc = "waiting"
                 /\ r.due = now + 2000)

\* C8 happens: the manual check was issued while the badge showed the exhausted
\* sequence, and it failed with a timeout message.
C8_Witness ==
  /\ lastProbe # NoProbe
  /\ lastProbe.by = "manual"
  /\ lastProbe.afterExhausted
  /\ lastProbe.outcome = "timeoutMessage"
  /\ lastProbe.started

\* C11 as stated: two concept sequences with the same set of keys get the same
\* sentence from composeLocal.
C11_SetOnly == localResult.called => localResult.a = localResult.b

\* C11 as amended: for two sequences with the same set of keys, when a rule matches
\* the sentence is the same whatever the order and the repetitions; when no rule
\* matches the generic sentence lists the input as given, so the two sentences
\* are the same only if the two sequences are.
C11_SetOnlyWhenRuleMatches ==
  localResult.called
    => IF Matching(RuleTable, localArgs.a) # {}
       THEN localResult.a = localResult.b
       ELSE (localResult.a = localResult.b <=> localArgs.a = localArgs.b)

\* C11 happens: a rule matches and the two inputs differ in order and in length.
C11_Witness ==
  /\ localResult.called
  /\ Matching(RuleTable, localArgs.a) # {}
  /\ Len(localArgs.a) = 3 /\ Len(localArgs.b) = 2
  /\ localArgs.a[1] # localArgs.b[1]
  /\ localResult.a = localResult.b

\* The variables of the program proper.
programVars == <<now, ws, currentDwellMs, dwellVars, selVars, azState, monVars, cursor,
                 ptrVars, aborted>>

\* C12: composeLocal returns the sentence of the first rule of the table whose two
\* keys are both in the input (yo, agua and comida together give the water
\* sentence), else the generic sentence listing the input in its order; the call
\* changes no state of the program.
C12_FirstRuleOrGeneric ==
  /\ [](localResult.called
          => /\ localResult.a = FirstMatch(RuleTable, localArgs.a)
             /\ ({"yo", "agua", "comida"} \subseteq Range(localArgs.a)
                   => localResult.a = "Por favor, necesito un vaso de agua.")
             /\ (Matching(RuleTable, localArgs.a) = {}
                   => localResult.a = "Quiero comunicar: " \o Join(localArgs.a) \o "."))
  /\ [][localResult' # localResult => UNCHANGED programVars]_vars

\* C12 happens: composeLocal is called with yo, agua and comida, in an order that
\* puts comida before agua.
C12_Witness ==
  /\ localResult.called
  /\ localArgs.a = <<"comida", "yo", "agua">>

\* C13 as stated: every change of the selection appends one key at its end or
\* empties it.
C13_AppendOnly ==
  [][\/ selected' = selected
     \/ selected' = <<>>
     \/ \E k \in Cards : selected' = Append(selected, k)]_vars

\* t is s without its element at one position, the others in their order.
OneRemoved(s, t) ==
  /\ Len(t) = Len(s) - 1
  /\ \E i \in 1..Len(s) :
       /\ \A j \in 1..(i - 1) : t[j] = s[j]
       /\ \A j \in i..Len(t) : t[j] = s[j + 1]

\* C13 as amended: every change of the selection appends one key at its end,
\* empties it, or takes one element out (a chip click), the others keeping their
\* order; no elements are reordered.
C13_AppendRemoveOrClear ==
  [][\/ selected' = selected
     \/ selected' = <<>>
     \/ \E k \in Cards : selected' = Append(selected, k)
     \/ OneRemoved(selected, selected')]_vars

\* C13 happens: the array that was sent as <<yo, agua, yo>> is still the
\* selection (no clear since) and has lost its middle element.
C13_Witness ==
  /\ Len(inflight) >= 1
  /\ inflight[1].aliased
  /\ inflight[1].asked = <<"yo", "agua", "yo">>
  /\ selected = <<"yo", "yo">>

\* C14 as stated: a card committed by dwell has been dwelt on for the dwellMs that
\* was in force when its episode started, whatever the slider did meanwhile.
C14_ThresholdFixedAtStart ==
  lastChoose.called /\ lastChoose.by = "dwell"
    => now - lastChoose.acquired >= lastChoose.acquiredMs

\* C15: available turns true exactly in the step in which a probe returns
\* status connected, and retryCount is 0 after that step; no other step (a
\* generation response, a retry status update, a failed probe) turns it true.
C15_AvailableOnlyByConnectedProbe ==
  [][/\ (lastProbe'.done /\ lastProbe'.outcome = "connected"
          => azureFoundryAvailable' /\ azureRetryCount' = 0)
     /\ (azureFoundryAvailable' /\ ~azureFoundryAvailable
          => lastProbe'.done /\ lastProbe'.outcome = "connected")]_vars

\* C15 happens: a probe has just returned connected, a composition having
\* completed before it.
C15_Witness ==
  /\ lastProbe.done
  /\ lastProbe.outcome = "connected"
  /\ azureFoundryAvailable
  /\ availWriter = "probe"
  /\ output # "" /\ output # Generating

\* C16: a gaze message that carries no point in an accepted form changes nothing:
\* the cursor target, the dwell target, timer, start time and running intervals,
\* the progress fills, the selection and the output stay as they are, and the
\* handler returns normally.
C16_GarbageChangesNothing ==
  [][lastEvent'.kind = "garbage"
       => UNCHANGED <<cursor, dwellVars, selVars, ws, currentDwellMs, azState>>]_vars

\* C16 happens: a message without a point has just been handled while a dwell
\* episode was half way and a key was already selected.
C16_Witness ==
  /\ lastEvent.kind = "garbage"
  /\ dwellTarget = "yo"
  /\ dwellTimer # 0
  /\ now > dwellStart
  /\ selected # <<>>

\* C17: a tick of the 30 s monitor issues a probe if and only if at least 30 s
\* have passed since the last check, whether a retry sequence is running, is
\* exhausted or was never started; a tick that issues none changes nothing of
\* the availability state.
C17_TickProbesIffDue ==
  [][lastEvent'.kind = "tick"
       => IF now - lastAzureCheck >= 30000
          THEN /\ Len(probes') = Len(probes) + 1
               /\ probes'[Len(probes')].by = "periodic"
          ELSE UNCHANGED <<probes, azState>>]_vars

\* C17 happens: a tick has just issued a probe, 30 s after a probe that failed
\* without starting a retry sequence.
C17_Witness ==
  /\ lastEvent.kind = "tick"
  /\ Len(probes) >= 1
  /\ probes[Len(probes)].by = "periodic"
  /\ now - lastAzureCheck = 30000
  /\ ~azureFoundryAvailable
  /\ retries = {}

\* C18: whatever a probe meets other than status connected (a network error, its
\* 5 s timeout, a non-success status, an unparseable body, a body reporting an
\* error with or without a message), the probe completes, resolves to false and
\* leaves the service marked unavailable; nothing outside the monitor (selection,
\* output, requests in flight, dwell, socket) is touched.
C18_ProbeFailureResolvesFalse ==
  [][lastProbe'.done /\ lastProbe'.outcome # "connected"
       => /\ lastProbe'.returned = FALSE
          /\ ~azureFoundryAvailable'
          /\ retryBtn' \/ retries' # {}
          /\ UNCHANGED <<selVars, dwellVars, ws, currentDwellMs, cursor, monitorDue>>]_vars

\* C18 happens: a probe has met a body that reports an error without a message
\* field, while a generation request was in flight.
C18_Witness ==
  /\ lastProbe.done
  /\ lastProbe.outcome = "noMessage"
  /\ ~lastProbe.returned
  /\ badge = "Proxy no accesible"
  /\ inflight # <<>>

\* C19: the concept list sent in a generation request is the selection as it
\* stands after the commit that triggered it, that is the keys selected before in
\* their order followed by the key just committed, repeats included; the proxy's
\* prompt lists exactly these keys, in this order, joined by ", ".
C19_RequestKeepsSelectionOrder ==
  [][Len(inflight') = Len(inflight) + 1
       => LET req == inflight'[Len(inflight')]
          IN /\ lastChoose'.called
             /\ req.asked = Append(selected, lastChoose'.key)
             /\ req.asked = selected'
             /\ req.prompt = "Pictogramas seleccionados: " \o req.asked[1] \o ", "
                                \o req.asked[2] \o ", " \o req.asked[3]]_vars

\* C19 happens: a request is in flight for a selection with a repeated key, in an
\* order that is neither alphabetical nor that of the board.
C19_Witness ==
  /\ Len(inflight) >= 1
  /\ inflight[1].asked = <<"agua", "yo", "agua">>
  /\ inflight[1].prompt = "Pictogramas seleccionados: agua, yo, agua"

\* C20: when a successful response carries a non-empty phrase and names
\* azure_foundry or azure_openai as its source, compose returns that phrase as it
\* is (it becomes the output) and the availability state stays as it was.
C20_AzurePhraseVerbatim ==
  [][(/\ lastEvent'.kind = "body"
      /\ lastEvent'.phrase # ""
      /\ lastEvent'.source \in {"azure_foundry", "azure_openai"})
       => /\ lastDone'.done
          /\ lastDone'.phrase = lastEvent'.phrase
          /\ output' = lastEvent'.phrase
          /\ UNCHANGED azState]_vars

\* C20 happens: an Azure phrase has just been shown although a probe had marked
\* the service unavailable while the request was in flight.
C20_Witness ==
  /\ lastEvent.kind = "body"
  /\ lastEvent.source = "azure_openai"
  /\ output = "Frase de Azure."
  /\ ~azureFoundryAvailable

\* C21: when a successful response carries a non-empty phrase and a source other
\* than azure_foundry or azure_openai, compose shows that phrase, reports it as
\* generated locally, and marks the service unavailable (badge "Azure no
\* respondio", retry button shown).
C21_FallbackSourceMarksUnavailable ==
  [][(/\ lastEvent'.kind = "body"
      /\ lastEvent'.phrase # ""
      /\ lastEvent'.source \notin {"azure_foundry", "azure_openai"})
       => /\ lastDone'.done
          /\ lastDone'.phrase = lastEvent'.phrase
          /\ output' = lastEvent'.phrase
          /\ lastDone'.aiStatus = "Azure fallo - Generado localmente"
          /\ ~azureFoundryAvailable'
          /\ badge' = "Azure no respondio"
          /\ retryBtn'
          /\ lastAzureCheck' = now]_vars

\* C21 happens: the proxy's own fallback phrase has just been shown and the
\* generation path has marked the service unavailable.
C21_Witness ==
  /\ lastEvent.kind = "body"
  /\ lastEvent.source = "local_fallback"
  /\ output = "Servicio de IA temporalmente no disponible."
  /\ lastDone.availAtCall
  /\ ~azureFoundryAvailable
  /\ availWriter = "generation"

\* C22: the normalised coordinate made from an accepted gaze message lies in
\* [0, 1] once clamped (below 0 it becomes 0, above 1 it becomes 1, in between it
\* is kept), so the pixel position handed to the cursor and the hit-test lies in
\* the window; clamping the clamped value again gives the same value.
C22_ClampedAndIdempotent ==
  localResult.called
    => LET raw == IF localArgs.form = "norm" THEN localArgs.v
                  ELSE (localArgs.v * 10) \div localArgs.size
       IN /\ localResult.x >= 0 /\ localResult.x <= 10
          /\ (raw < 0 => localResult.x = 0)
          /\ (raw > 10 => localResult.x = 10)
          /\ (raw >= 0 /\ raw <= 10 => localResult.x = raw)
          /\ localResult.again = localResult.x
          /\ localResult.px >= 0 /\ localResult.px <= localArgs.size

\* C22 happens: a pixel coordinate left of the window has been clamped to 0.
C22_Witness ==
  /\ localResult.called
  /\ localArgs.form = "pixel"
  /\ localArgs.v < 0
  /\ localResult.x = 0

\* The request carries a non-empty array of concepts.
C23_ValidConcepts ==
  /\ localArgs.parses
  /\ localArgs.shape = "array"
  /\ localArgs.body.concepts # <<>>

\* C23 as stated: the answer is 400 with an error exactly when concepts is
\* missing, not an array or empty; every other request gets 200 with a phrase and
\* a source.
C23_BadRequestOrOk ==
  localResult.called
    => IF C23_ValidConcepts
       THEN /\ localResult.status = 200
            /\ localResult.phrase # ""
            /\ localResult.source \in {"azure_openai", "local_fallback"}
       ELSE localResult.status = 400 /\ localResult.error

\* C23 as amended: the same, for the requests that reach the handler (within the
\* rate limit, with a body that express.json parses); a request over the rate
\* limit gets 429 and one with an unparseable body gets 500.
C23_BadRequestOrOkPastMiddleware ==
  localResult.called
    => IF localArgs.overLimit THEN localResult.status = 429
       ELSE IF ~localArgs.parses THEN localResult.status = 500
       ELSE IF C23_ValidConcepts
       THEN /\ localResult.status = 200
            /\ localResult.phrase # ""
            /\ localResult.source \in {"azure_openai", "local_fallback"}
            /\ (~localArgs.client \/ localArgs.azure # "text"
                  => localResult.source = "local_fallback")
       ELSE localResult.status = 400 /\ localResult.error

\* C23 happens: the Azure call has thrown for a valid request and the answer is
\* 200 with the fallback phrase.
C23_Witness ==
  /\ localResult.called
  /\ ~localArgs.overLimit
  /\ C23_ValidConcepts
  /\ localArgs.client
  /\ localArgs.azure = "throws"
  /\ localResult.status = 200
  /\ localResult.source = "local_fallback"

\* C24: a key is emitted by dwell only at a tick of the running episode on that
\* key's card, when the time since the episode started has reached dwellMs; the
\* emission ends the episode and removes its timer, so the episode emits at most
\* once and its timer never fires again; an episode that ends otherwise emits
\* nothing.
C24_EmitOnceAtThreshold ==
  [][lastChoose'.called /\ lastChoose'.by = "dwell"
       => /\ dwellTarget # Null
          /\ lastChoose'.key = dwellTarget
          /\ dwellTimer # 0
          /\ \E t \in intervals : t.id = dwellTimer /\ t.key = dwellTarget
          /\ now - dwellStart >= currentDwellMs
          /\ dwellTarget' = Null
          /\ dwellTimer' = 0
          /\ \A t \in intervals' : t.id # dwellTimer]_vars

\* C24 happens: a key has just been emitted by dwell, after an earlier episode on
\* the same card had been cancelled part-way.
C24_Witness ==
  /\ lastChoose.called
  /\ lastChoose.by = "dwell"
  /\ lastChoose.key = "yo"
  /\ lastCancel.target = "yo"
  /\ dwellTarget = Null
  /\ intervals = {}

\* C25: there is at most one dwell timer, and it runs if and only if a dwell
\* target is set; it is the timer of the episode on that target, the timer of
\* the episode before having been discarded.
C25_OneTargetOneTimer ==
  /\ Cardinality(intervals) <= 1
  /\ (dwellTimer # 0 <=> dwellTarget # Null)
  /\ (intervals # {} <=> dwellTarget # Null)
  /\ \A t \in intervals : t.id = dwellTimer /\ t.key = dwellTarget

\* C25 happens: the dwell has moved from one card to the other part-way through.
C25_Witness ==
  /\ dwellTarget = "agua"
  /\ lastCancel.target = "yo"
  /\ intervals # {}
  /\ now > 0

\* C26: a gaze message whose hit-test resolves to another card or to none, a
\* pointer entering another card, and a pointer-leave or blur end the running
\* episode in the same step: its timer is discarded and its progress is back at
\* 0, so no tick of that episode is left to commit its card.
C26_CancelInSameStep ==
  [][(/\ dwellTarget # Null
      /\ \/ \E h \in Places : h # dwellTarget /\ GazeMessage(h) /\ NoUIEvent
         \/ \E k \in Cards : k # dwellTarget /\ PointerBegin(k)
         \/ PointerEnd)
       => /\ dwellTarget' # dwellTarget
          /\ fill'[dwellTarget] = 0
          /\ \A t \in intervals' : t.key # dwellTarget
          /\ ~lastChoose'.called
          /\ selected' = selected]_vars

\* C26 happens: an episode on yo has been cancelled part-way by the gaze leaving
\* the cards.
C26_Witness ==
  /\ lastCancel.target = "yo"
  /\ lastCancel.elapsed > 0
  /\ dwellTarget = Null
  /\ gazeStay = Null
  /\ ws = "open"
  /\ fill["yo"] = 0
  /\ ~lastChoose.called

\* C27: the point a gaze message is hit-tested at is the point the cursor is drawn
\* at, as it is drawn when the message arrives or as the next frame draws it.
C27_HitTestAtDrawnCursor ==
  [][(\E h \in Places : GazeMessage(h) /\ NoUIEvent)
       => \/ tx' = cx /\ ty' = cy
          \/ /\ tx' = approach(cx, tx', currentSmooth)
             /\ ty' = approach(cy, ty', currentSmooth)]_vars

\* C30: the mouse writes the cursor target only while no gaze socket is open, and a
\* gaze message writes it only while the socket that delivers it is open.
C30_OneSourceAtATime ==
  [][/\ lastEvent'.kind = "move" => ws # "open" /\ oldWs # "open"
     /\ lastEvent'.kind = "old" => oldWs = "open"]_vars

\* C28: a step that completes a probe adds a retry sequence (one whose id no
\* sequence had before, waiting its first delay as attempt 0) only if the probe was
\* answered with a body reporting an error whose message names a timeout; a probe
\* that meets a non-success status, a network error, its own 5 s timeout or
\* another message leaves the availability flag false and adds no retry sequence.
C28_NewSeq == \E r \in retries' : \A q \in retries : q.id # r.id

C28_RetryOnlyOnTimeoutMessage ==
  [][lastProbe'.done
       => /\ C28_NewSeq => lastProbe'.outcome = "timeoutMessage"
          /\ lastProbe'.outcome \in {"httpError", "networkError", "abort", "otherMessage"}
               => /\ ~azureFoundryAvailable'
                  /\ ~C28_NewSeq
                  /\ \A r \in retries' \ retries : r.attempt > 0]_vars

\* C28 happens: a probe that was no retry met a timeout message after some time
\* and the one retry sequence there is waits its first delay.
C28_Witness ==
  /\ lastProbe.done /\ lastProbe.outcome = "timeoutMessage" /\ lastProbe.by # "retry"
  /\ \E r \in retries : r.attempt = 0 /\ r.pc = "waiting" /\ r.due = now + 2000
  /\ Cardinality(retries) = 1
  /\ now > 0

\* C29: within a retry sequence, attempt k starts waiting with its probe due 2 s,
\* 5 s and 10 s later for k = 0, 1, 2; the probe of an attempt is issued only once
\* that time has come; attempt k + 1 is entered only when the probe of attempt k has
\* failed; and when a retry probe succeeds its sequence ends with no further attempt.
C29_DelaysOrderAndStop ==
  [][/\ \A r \in retries' \ retries :
          /\ r.attempt \in 0..2
          /\ r.pc = "waiting"
               => /\ r.due = now + <<2000, 5000, 10000>>[r.attempt + 1]
                  /\ lastProbe'.done /\ ~lastProbe'.returned
                  /\ IF r.attempt = 0
                     THEN \A q \in retries : q.id # r.id
                     ELSE \E q \in retries : /\ q.id = r.id
                                             /\ q.pc = "probing"
                                             /\ q.attempt + 1 = r.attempt
          /\ r.pc = "probing"
               => \E q \in retries : /\ q.id = r.id
                                     /\ q.pc = "waiting"
                                     /\ q.attempt = r.attempt
                                     /\ now >= q.due
     /\ (lastProbe'.done /\ lastProbe'.by = "retry" /\ lastProbe'.returned)
          => /\ retries' \subseteq retries
             /\ Cardinality(retries') = Cardinality(retries) - 1]_vars

\* C29 happens: the probe of the second attempt of a retry sequence has succeeded
\* and the sequence is over.
C29_Witness ==
  /\ lastProbe.done /\ lastProbe.by = "retry" /\ lastProbe.returned
  /\ retryProbes = 2
  /\ retries = {}
  /\ azureFoundryAvailable

\* C31: the hit-test returns the card at the reported point when there is one,
\* whatever the cells around hold; otherwise the first card met at the nine offsets
\* taken with x outside and y inside, probes outside the viewport left out; with
\* no card at any of them it returns no target and the handler calls endDwell.
C31_Order ==
  <<<<0 - 30, 0 - 30>>, <<0 - 30, 0>>, <<0 - 30, 30>>,
    <<0, 0 - 30>>, <<0, 0>>, <<0, 30>>,
    <<30, 0 - 30>>, <<30, 0>>, <<30, 30>>>>

C31_Inside(x, y) == x \in 0..(ViewSize - 1) /\ y \in 0..(ViewSize - 1)

C31_Found(k) ==
  LET x == localArgs.px + C31_Order[k][1]
      y == localArgs.py + C31_Order[k][2]
  IN IF C31_Inside(x, y)
     THEN localArgs.layout[<<x \div Tolerance, y \div Tolerance>>]
     ELSE Null

C31_ExactThenGridOrder ==
  localResult.called =>
    LET exact == IF C31_Inside(localArgs.px, localArgs.py)
                 THEN localArgs.layout[<<localArgs.px \div Tolerance,
                                         localArgs.py \div Tolerance>>]
                 ELSE Null
        hits == {k \in 1..9 : C31_Found(k) # Null}
    IN /\ exact # Null => localResult.hit = exact
       /\ (exact = Null /\ hits # {})
            => \E k \in hits : /\ \A m \in hits : k <= m
                                /\ localResult.hit = C31_Found(k)
       /\ (exact = Null /\ hits = {})
            => localResult.hit = Null /\ localResult.calls = "endDwell"

\* C31 happens: nothing lies at the reported point, agua lies one tolerance to the
\* left and below, yo lies straight above, and the hit-test has taken agua.
C31_Witness ==
  /\ localResult.called
  /\ localArgs.px = 45 /\ localArgs.py = 45
  /\ localArgs.layout[<<1, 1>>] = Null
  /\ localArgs.layout[<<0, 2>>] = "agua"
  /\ localArgs.layout[<<1, 0>>] = "yo"
  /\ localResult.hit = "agua"

\* C32: a message without two numeric coordinate fields yields no point: a JSON
\* value with no pair of number fields, a text without a comma, and a text whose
\* fields around the comma are not both numerals (an empty field is no numeral).
C32_Numeral(field) == field \in {"5", "0.4"}

C32_LacksCoordinates(msg) ==
  IF "fields" \in DOMAIN msg
  THEN ~(C32_Numeral(msg.fields[1]) /\ C32_Numeral(msg.fields[2]))
  ELSE IF msg.json THEN msg.jnull \/ msg.pairs = {}
  ELSE ~(msg.isString /\ msg.hasComma /\ msg.numeric)

C32_NoNumbersNoPoint ==
  (localResult.called /\ C32_LacksCoordinates(localArgs.msg))
    => localResult.point = NoPoint

C34_OneRetrySequence == Cardinality(retries) <= 1

\* C35: when a request fails, the concepts its local fallback is computed from are
\* the concepts the composition was triggered with, whatever chips were removed
\* and whether the selection was cleared while the request was in flight.
C35_FallbackUsesTriggerConcepts ==
  (lastDone.done /\ lastDone.sent /\ lastDone.how \notin {"azure", "degraded"})
    => /\ lastDone.concepts = lastDone.asked
       /\ lastDone.phrase = composeLocal(lastDone.asked)

\* C36: the phrase put in the output last is that of the composition triggered
\* last. A selection of 3 keys is the one the latest composition was triggered
\* with, so the request answered with an Azure phrase when no other is in flight
\* asked for the selection as it stands.
C36_LatestCompositionShown ==
  (/\ lastDone.done /\ lastDone.sent /\ lastDone.how = "azure"
   /\ inflight = <<>>
   /\ Len(selected) = SELECTION_CAP)
    => lastDone.asked = selected

\* C37: the availability flag goes from true to false only in a step in which a
\* probe fails or a generation request fails or is answered by the fallback; the
\* status updates of a retry sequence do not take it back on their own.
C37_TrueUntilFailure ==
  [][(azureFoundryAvailable /\ ~azureFoundryAvailable')
       => \/ lastProbe'.done /\ ~lastProbe'.returned
          \/ lastDone'.done /\ lastDone'.sent /\ lastDone'.how # "azure"]_vars

\* C38: once the service answers every probe as connected, the availability flag
\* becomes true with no press of the retry button, whatever failed before.
C38_RecoversUnaided == (now >= HealAt) ~> azureFoundryAvailable

\* C38 happens: after the retries were exhausted and the service recovered, the
\* probe of the 30 s interval found it connected.
C38_Witness ==
  /\ now >= HealAt
  /\ azureFoundryAvailable
  /\ lastProbe.done /\ lastProbe.by = "periodic" /\ lastProbe.afterExhausted

\* C39: a running dwell episode ends only by its commit or by a gaze point whose
\* hit-test resolves elsewhere; the socket closing or a message without a point
\* leaves it running; the first tick at or past the dwell time commits its card;
\* and an episode with time left for the longest dwell setting does end.
C39_Committed == lastChoose'.called /\ lastChoose'.by = "dwell" /\ lastChoose'.key = dwellTarget

C39_ExplicitCancel ==
  \E msg \in PointMessages : parseGazeMessage(msg).at # dwellTarget /\ OnMessage(msg)

C39_CommitsUnlessCancelled ==
  /\ [][dwellTarget # Null
         => /\ (dwellTarget' # dwellTarget \/ dwellStart' # dwellStart
                  => C39_Committed \/ C39_ExplicitCancel)
            /\ ((\E tm \in intervals : DwellTick(tm)) /\ now - dwellStart >= currentDwellMs
                  => C39_Committed /\ dwellTarget' = Null /\ intervals' = {})]_vars
  /\ \A T \in Cards :
       (dwellTarget = T /\ \A ms \in DwellChoices : dwellStart + ms <= MaxTime)
         ~> (dwellTarget # T)

\* C39 happens: a card has just been committed by dwell with the socket closed,
\* the episode having started while it was open.
C39_Witness ==
  /\ ws = "closed"
  /\ lastChoose.called
  /\ lastChoose.by = "dwell"
  /\ lastChoose.key = "yo"
  /\ now - lastChoose.acquired >= lastChoose.acquiredMs

\* C40: while the gaze socket is open, a mouseenter, mouseleave, focus or blur on a
\* card leaves the dwell target, its timer and its start time as they are.
C40_PointerIgnoredWhileOpen ==
  [][(/\ ws = "open"
      /\ \/ \E k \in Cards : MouseEnter(k) \/ Focus(k)
         \/ MouseLeave
         \/ Blur)
       => UNCHANGED <<dwellTarget, dwellTimer, dwellStart, intervals>>]_vars

====
